---- MODULE Spec2Model ----
(***************************************************************************)
(* GoldenHour triage console (src/src/App.jsx): the App shell with its     *)
(* page switch and re-triage intent, the DashboardPage queue poller, the   *)
(* CriticalNotifications alert panel and the AddPatientForm submission     *)
(* workflow, as one state machine.                                         *)
(*                                                                         *)
(* A React component instance that is unmounted never comes back: its      *)
(* state is discarded and a later mount starts from the useState initial   *)
(* values.  A promise continuation that belongs to an unmounted instance   *)
(* still runs, but its setState calls change nothing that is rendered; the *)
(* model marks such continuations live = FALSE.                            *)
(*                                                                         *)
(* JavaScript null is the empty sequence <<>>, a present value x is <<x>>. *)
(***************************************************************************)
EXTENDS Integers, Sequences, FiniteSets, TLC

\* ---------------------------------------------------------------- bounds
\* api.queue() calls issued in one run (mount fetches and interval ticks).
MaxQueueCalls == 3
\* submit events in one run.
MaxSubmits == 2
\* loadPatientHistory calls in one visit of the history screen.
MaxLoads == 2

\* ------------------------------------------------------- program constants
\* critical.slice(0, 5): at most five alerts are rendered.
AlertSliceLen == 5
\* symptoms.length > 12 is rejected.
MaxSymptoms == 12
\* .slice(0, 3) of TopPatientsCard and .slice(0, 8) of QueueSummaryCard.
TopLen == 3
SummaryLen == 8
\* hours by which the browser's local time is ahead of UTC, and the hours of
\* a day: toLocaleDateString gives the local calendar date.
TimeZoneOffset == 5
HoursPerDay == 24

Null == <<>>
Some(x) == <<x>>

Min(a, b) == IF a < b THEN a ELSE b

\* Sidebar nav ids = keys of App.pages.
Pages == {"dashboard", "queue", "addPatient", "history", "analytics"}

TriageCategories == {"RED", "ORANGE", "YELLOW", "GREEN"}

\* ------------------------------------------------------ server-side inputs
PatientIds == {"P1", "P2"}

\* (risk_score, triage) pairs the queue endpoint is taken to return.  The
\* console reads the two fields independently (the filter of
\* CriticalNotifications tests both, and its third message tier is only
\* reachable with a RED/ORANGE record whose score is below 60), so pairs off
\* the banding are included.
RiskTriagePairs ==
    { <<80, "RED">>, <<60, "ORANGE">>, <<30, "GREEN">>,
      <<30, "RED">>, <<60, "YELLOW">> }

PatientRecords ==
    { [patient_id |-> i, risk_score |-> rt[1], triage |-> rt[2]] :
        i \in PatientIds, rt \in RiskTriagePairs }

DistinctIds(s) ==
    \A i, j \in 1..Len(s) : i # j => s[i].patient_id # s[j].patient_id

\* GET /queue -> {patients: [...]}: the latest record per patient_id.
PatientLists ==
    { s \in UNION { [1..n -> PatientRecords] : n \in 0..Cardinality(PatientIds) } :
        DistinctIds(s) }

Snapshots == { [patients |-> s] : s \in PatientLists }

Ids(s) == { s[i].patient_id : i \in 1..Len(s) }

VARIABLES
    page,             \* App: page
    retriagePatient,  \* App: retriagePatient (Null or Some(record))
    queueData,        \* DashboardPage: queueData (Null or Some(snapshot))
    dismissed,        \* CriticalNotifications: dismissed (set of patient_id)
    expanded,         \* CriticalNotifications: expanded
    dashInterval,     \* DashboardPage: the setInterval timer iv is armed
    queueCalls,       \* api.queue() calls in flight
    queueCallCount,   \* api.queue() calls issued so far
    alertHistory,     \* history of the Dismiss clicks, per patient_id
    queuePageData,    \* QueuePage: queueData (Null or Some(snapshot))
    queuePageLoading, \* QueuePage: loading
    queueInterval,    \* QueuePage: the setInterval timer iv is armed
    analyticsInterval,\* AnalyticsPage: the setInterval timer iv is armed
    pollHistory,      \* history of the settled queue fetches, per screen
    historyQueueData,   \* HistoryPage: queueData (Null or Some(snapshot))
    historyQueuePending,\* HistoryPage: its api.queue() call is in flight
    selectedPatient,    \* HistoryPage: selectedPatient (Null or Some(patient_id))
    patientHistory,     \* HistoryPage: patientHistory (Null or Some(response))
    historyLoading,     \* HistoryPage: historyLoading
    nextDayPrediction,  \* HistoryPage: nextDayPrediction (Null or Some({move, recs}))
    ndpLoading,         \* HistoryPage: ndpLoading
    historyCalls,       \* loadPatientHistory calls of the mounted HistoryPage
    historyLoadCount,   \* loadPatientHistory calls of the mounted HistoryPage so far
    form,             \* AddPatientForm: form
    loading,          \* AddPatientForm: loading
    result,           \* AddPatientForm: result (Null or Some(triage response))
    error,            \* AddPatientForm: error (Null or Some(message))
    nextMove,         \* AddPatientForm: nextMove (Null or Some(prediction))
    recommendations,  \* AddPatientForm: recommendations (list)
    subs,             \* the calls of submit: those still running, and those
                      \* that returned since the latest call began
    submitCount       \* calls of submit so far

appVars == <<page, retriagePatient>>
dashVars == <<queueData, dismissed, expanded, dashInterval>>
queueVars == <<queuePageData, queuePageLoading, queueInterval, analyticsInterval>>
historyVars == <<historyQueueData, historyQueuePending, selectedPatient, patientHistory,
                 historyLoading, nextDayPrediction, ndpLoading, historyCalls,
                 historyLoadCount>>
netVars == <<queueCalls, queueCallCount>>
formVars == <<form, loading, result, error, nextMove, recommendations>>
subVars == <<subs, submitCount>>
vars == <<appVars, dashVars, queueVars, historyVars, netVars, alertHistory, pollHistory, formVars, subVars>>

\* ------------------------------------------------ CriticalNotifications
\* const pts = queueData?.patients || []
pts == IF queueData = Null THEN <<>> ELSE queueData[1].patients

IsCriticalScoreOnly(p) == p.risk_score >= 60

IsCritical(p) ==
    p.triage = "RED" \/ p.triage = "ORANGE" \/ p.risk_score >= 60

\* (patients || []).filter(critical test).filter(p => !dismissed.has(id))
Critical(patients, dis) ==
    LET NotDismissed(p) == p.patient_id \notin dis
    IN SelectSeq(SelectSeq(patients, IsCritical), NotDismissed)

critical == Critical(pts, dismissed)

\* {expanded && critical.slice(0, 5).map(...)}; nothing when the panel
\* returns null (critical.length === 0) or the dashboard is not shown.
Rendered(crit, exp) ==
    IF exp THEN SubSeq(crit, 1, Min(AlertSliceLen, Len(crit))) ELSE <<>>

rendered == IF page = "dashboard" THEN Rendered(critical, expanded) ELSE <<>>

MessageTierStrict(p) ==
    IF p.risk_score > 80 THEN "CRITICAL"
    ELSE IF p.risk_score > 60 THEN "WARNING"
    ELSE "ALERT"

\* getNotifMessage / getColor: the tier of one alert.
MessageTier(p) ==
    IF p.risk_score >= 80 THEN "CRITICAL"
    ELSE IF p.risk_score >= 60 THEN "WARNING"
    ELSE "ALERT"

AddDismissedAlone(d, id) == {id}

\* one rendered alert row: its key, its message tier and the score shown.
AlertRow(p) ==
    [patient_id |-> p.patient_id, tier |-> MessageTier(p), risk_score |-> p.risk_score]

renderedRows == [i \in 1..Len(rendered) |-> AlertRow(rendered[i])]

\* setDismissed(d => new Set([...d, p.patient_id]))
AddDismissed(d, id) == d \cup {id}

\* What has happened to a patient_id's Dismiss button, recorded for the
\* properties only (no handler reads it):
\*   "never"   never clicked;
\*   "earlier" clicked in an earlier visit of the dashboard only;
\*   "now"     clicked in the present visit, no snapshot applied since;
\*   "kept"    clicked in the present visit, and every snapshot applied since
\*             has the patient in the critical subset;
\*   "exited"  clicked in the present visit, and a snapshot applied since has
\*             the patient outside the critical subset.
ThisVisit == {"now", "kept", "exited"}

CriticalIds(patients) == Ids(SelectSeq(patients, IsCritical))

AfterDismiss(h, id) == [h EXCEPT ![id] = "now"]

AfterSnapshot(h, patients) ==
    [id \in PatientIds |->
        IF h[id] \in {"now", "kept"}
        THEN (IF id \in CriticalIds(patients) THEN "kept" ELSE "exited")
        ELSE h[id]]

AfterLeave(h) ==
    [id \in PatientIds |-> IF h[id] \in ThisVisit THEN "earlier" ELSE h[id]]

\* ------------------------------------------------ the queue pollers
\* the screens whose mount effect polls GET /queue.
PollingPages == {"dashboard", "queue"}

\* What the settled fetches of the present instance of a screen have been,
\* recorded for the properties only (no handler reads it): how the latest
\* one ended ("none" before the first), the response of the latest
\* successful one and the number of the call it answered (0 before the
\* first), whether a success has followed a failure, and whether a response
\* for an earlier instance of the screen has arrived meanwhile.
FreshPoll ==
    [last |-> "none", response |-> Null, from |-> 0, recovered |-> FALSE, stale |-> FALSE]

AfterFetchOk(h, c, snap) ==
    IF c.live
    THEN [h EXCEPT ![c.owner] = [@ EXCEPT !.last = "ok", !.response = Some(snap),
                                          !.from = c.id,
                                          !.recovered = (@ \/ h[c.owner].last = "failed")]]
    ELSE IF page = c.owner THEN [h EXCEPT ![c.owner].stale = TRUE]
    ELSE h

AfterFetchFail(h, c) ==
    IF c.live THEN [h EXCEPT ![c.owner].last = "failed"] ELSE h

NewQueueCall(owner) == [id |-> queueCallCount + 1, owner |-> owner, live |-> TRUE]

\* unmount of the page `owner`: its pending continuations stay pending, but
\* belong to a discarded instance.
Orphan(calls, owner) ==
    { IF c.owner = owner THEN [c EXCEPT !.live = FALSE] ELSE c : c \in calls }

\* a mount effect that arms the timer without fetching at once.
MountCallsDeferred(to) == {}

\* the first statement of the mount effect of a polling screen:
\* api.queue().then(...) / fetch_().
MountCalls(to) == IF to \in PollingPages THEN {NewQueueCall(to)} ELSE {}

\* ------------------------------------------------------------ DashboardPage
\* useEffect of DashboardPage: api.queue().then(setQueueData) at once
\* (MountCalls), then setInterval(..., 15000).
MountDashboard ==
    /\ queueData' = Null
    /\ dismissed' = {}
    /\ expanded' = TRUE
    /\ dashInterval' = TRUE

\* the cleanup without clearInterval.
UnmountDashboardKeepTimer ==
    /\ queueData' = Null
    /\ dismissed' = {}
    /\ expanded' = TRUE
    /\ dashInterval' = dashInterval

\* cleanup of the effect: clearInterval(iv); the instance state is gone.
UnmountDashboard ==
    /\ queueData' = Null
    /\ dismissed' = {}
    /\ expanded' = TRUE
    /\ dashInterval' = FALSE

\* one firing of the interval: api.queue().then(setQueueData).catch(() => {})
DashPollTick ==
    /\ dashInterval
    /\ queueCallCount < MaxQueueCalls
    /\ queueCalls' = queueCalls \cup {NewQueueCall("dashboard")}
    /\ queueCallCount' = queueCallCount + 1
    /\ UNCHANGED <<appVars, dashVars, queueVars, historyVars, alertHistory, pollHistory, formVars, subVars>>

\* a response folded into the snapshot shown instead of replacing it.
DashFetchOkMerge(c, snap) ==
    /\ c \in queueCalls
    /\ c.owner = "dashboard"
    /\ queueCalls' = queueCalls \ {c}
    /\ queueData' = IF c.live THEN Some([patients |-> pts \o snap.patients]) ELSE queueData
    /\ alertHistory' = alertHistory
    /\ pollHistory' = AfterFetchOk(pollHistory, c, snap)
    /\ UNCHANGED <<appVars, dismissed, expanded, dashInterval, queueVars, historyVars, queueCallCount, formVars, subVars>>

\* a response applied to the dashboard whichever instance asked for it.
DashFetchOkShared(c, snap) ==
    /\ c \in queueCalls
    /\ c.owner = "dashboard"
    /\ queueCalls' = queueCalls \ {c}
    /\ queueData' = IF page = "dashboard" THEN Some(snap) ELSE queueData
    /\ alertHistory' = alertHistory
    /\ pollHistory' = AfterFetchOk(pollHistory, c, snap)
    /\ UNCHANGED <<appVars, dismissed, expanded, dashInterval, queueVars, historyVars, queueCallCount, formVars, subVars>>

\* .then(setQueueData): the response replaces the snapshot of the instance
\* that issued the call.
DashFetchOk(c, snap) ==
    /\ c \in queueCalls
    /\ c.owner = "dashboard"
    /\ queueCalls' = queueCalls \ {c}
    /\ queueData' = IF c.live THEN Some(snap) ELSE queueData
    /\ alertHistory' = IF c.live THEN AfterSnapshot(alertHistory, snap.patients)
                       ELSE alertHistory
    /\ pollHistory' = AfterFetchOk(pollHistory, c, snap)
    /\ UNCHANGED <<appVars, dismissed, expanded, dashInterval, queueVars, historyVars, queueCallCount, formVars, subVars>>

\* a failed call that blanks the snapshot.
DashFetchFailClears(c) ==
    /\ c \in queueCalls
    /\ c.owner = "dashboard"
    /\ queueCalls' = queueCalls \ {c}
    /\ queueData' = IF c.live THEN Null ELSE queueData
    /\ pollHistory' = AfterFetchFail(pollHistory, c)
    /\ UNCHANGED <<appVars, dismissed, expanded, dashInterval, queueVars, historyVars, queueCallCount,
                   alertHistory, formVars, subVars>>

\* a failed call that ends the polling.
DashFetchFailStops(c) ==
    /\ c \in queueCalls
    /\ c.owner = "dashboard"
    /\ queueCalls' = queueCalls \ {c}
    /\ dashInterval' = IF c.live THEN FALSE ELSE dashInterval
    /\ pollHistory' = AfterFetchFail(pollHistory, c)
    /\ UNCHANGED <<appVars, queueData, dismissed, expanded, queueVars, historyVars, queueCallCount,
                   alertHistory, formVars, subVars>>

\* .catch(() => {}): a failed call changes nothing.
DashFetchFail(c) ==
    /\ c \in queueCalls
    /\ c.owner = "dashboard"
    /\ queueCalls' = queueCalls \ {c}
    /\ pollHistory' = AfterFetchFail(pollHistory, c)
    /\ UNCHANGED <<appVars, dashVars, queueVars, historyVars, queueCallCount, alertHistory, formVars, subVars>>

\* ---------------------------------------------------------------- QueuePage
\* useEffect of QueuePage: fetch_() at once (MountCalls), then
\* setInterval(fetch_, 10000); useState(null), useState(true).
MountQueue ==
    /\ queuePageData' = Null
    /\ queuePageLoading' = TRUE
    /\ queueInterval' = TRUE

\* cleanup of the effect: clearInterval(iv); the instance state is gone.
UnmountQueue ==
    /\ queuePageData' = Null
    /\ queuePageLoading' = TRUE
    /\ queueInterval' = FALSE

\* fetch_ up to its await: const d = await api.queue()
StartFetch ==
    /\ queueCallCount < MaxQueueCalls
    /\ queueCalls' = queueCalls \cup {NewQueueCall("queue")}
    /\ queueCallCount' = queueCallCount + 1
    /\ UNCHANGED <<appVars, dashVars, queueVars, historyVars, alertHistory, pollHistory, formVars, subVars>>

\* one firing of setInterval(fetch_, 10000).
QueuePollTick == queueInterval /\ StartFetch

\* the Refresh button: onClick={fetch_}.
QueueRefresh == page = "queue" /\ StartFetch

\* fetch_ after api.queue() returns: setQueueData(d); setLoading(false).
QueueFetchOk(c, snap) ==
    /\ c \in queueCalls
    /\ c.owner = "queue"
    /\ queueCalls' = queueCalls \ {c}
    /\ queuePageData' = IF c.live THEN Some(snap) ELSE queuePageData
    /\ queuePageLoading' = IF c.live THEN FALSE ELSE queuePageLoading
    /\ pollHistory' = AfterFetchOk(pollHistory, c, snap)
    /\ UNCHANGED <<appVars, dashVars, queueInterval, analyticsInterval, historyVars, queueCallCount,
                   alertHistory, formVars, subVars>>

\* fetch_ after api.queue() throws: catch {}; setLoading(false).
QueueFetchFail(c) ==
    /\ c \in queueCalls
    /\ c.owner = "queue"
    /\ queueCalls' = queueCalls \ {c}
    /\ queuePageLoading' = IF c.live THEN FALSE ELSE queuePageLoading
    /\ pollHistory' = AfterFetchFail(pollHistory, c)
    /\ UNCHANGED <<appVars, dashVars, queuePageData, queueInterval, analyticsInterval, historyVars,
                   queueCallCount, alertHistory, formVars, subVars>>

\* the Dismiss button of a rendered alert.
Dismiss(id) ==
    /\ id \in Ids(rendered)
    /\ dismissed' = AddDismissed(dismissed, id)
    /\ alertHistory' = AfterDismiss(alertHistory, id)
    /\ UNCHANGED <<appVars, queueData, expanded, dashInterval, queueVars, historyVars, netVars, pollHistory, formVars, subVars>>

\* the panel header: setExpanded(e => !e); rendered only with alerts.
ToggleExpanded ==
    /\ page = "dashboard"
    /\ Len(critical) > 0
    /\ expanded' = ~expanded
    /\ UNCHANGED <<appVars, queueData, dismissed, dashInterval, queueVars, historyVars, netVars, alertHistory,
                   pollHistory, formVars, subVars>>


\* ------------------------------------------------------------ AddPatientForm
\* The text of an input or a field of a record: "" / missing (Blank), a
\* number (Typed(n)) or text that is no number (Garbled).
Blank == [kind |-> "empty", n |-> 0]
Typed(n) == [kind |-> "num", n |-> n]
Garbled == [kind |-> "text", n |-> 0]

\* Number(x): Number("") is 0, Number of non-numeric text is NaN.
NumberOf(v) ==
    [finite |-> v.kind # "text", n |-> IF v.kind = "num" THEN v.n ELSE 0]

\* x || "": 0, "" and undefined all give "".
OrBlank(v) == IF v.kind = "num" /\ v.n = 0 THEN Blank ELSE v

NumericFields == <<"age", "heart_rate", "systolic_bp", "spo2", "temperature">>

INPUT_LIMITS ==
    [age         |-> [min |-> 0,  max |-> 120],
     heart_rate  |-> [min |-> 20, max |-> 240],
     systolic_bp |-> [min |-> 50, max |-> 260],
     spo2        |-> [min |-> 50, max |-> 100],
     temperature |-> [min |-> 30, max |-> 45]]

\* `${limits.label} must be between ${limits.min} and ${limits.max}.`
RangeMessage ==
    [age         |-> "Age must be between 0 and 120.",
     heart_rate  |-> "Heart rate must be between 20 and 240.",
     systolic_bp |-> "Systolic BP must be between 50 and 260.",
     spo2        |-> "SpO2 must be between 50 and 100.",
     temperature |-> "Temperature must be between 30 and 45."]

FillMessage == "Please fill all required vitals before submitting."
SymptomsMessage == "Please provide up to 12 symptoms only."
FallbackMessage == "Failed to submit triage."

\* One comma-separated piece of the symptoms text: a word ("" for a piece
\* of blanks only), whether it is written with capitals, and whether blanks
\* surround it.
Piece(word, caps, pad) == [word |-> word, caps |-> caps, pad |-> pad]

Trim(t) == [t EXCEPT !.pad = FALSE]
ToLowerCase(t) == [t EXCEPT !.caps = FALSE]

\* form.symptoms.split(",").map((s) => s.trim()).filter(Boolean)
SplitSymptoms(text) ==
    LET NonEmpty(t) == t.word # ""
    IN SelectSeq([i \in 1..Len(text) |-> Trim(text[i])], NonEmpty)

\* a dedupe that keeps each key at the position of its last insertion.
RECURSIVE DedupeAtLast(_, _)
DedupeAtLast(symptoms, i) ==
    IF i > Len(symptoms) THEN <<>>
    ELSE LET key == ToLowerCase(symptoms[i])
             last == \A j \in (i + 1)..Len(symptoms) : ToLowerCase(symptoms[j]) # key
         IN (IF last THEN <<symptoms[i]>> ELSE <<>>) \o DedupeAtLast(symptoms, i + 1)

\* [...new Map(symptoms.map((s) => [s.toLowerCase(), s])).values()]: a Map
\* keeps a key at the position of its first insertion and the value of its
\* last.
RECURSIVE Dedupe(_, _)
Dedupe(symptoms, i) ==
    IF i > Len(symptoms) THEN <<>>
    ELSE LET key == ToLowerCase(symptoms[i])
             first == \A j \in 1..(i - 1) : ToLowerCase(symptoms[j]) # key
             last == CHOOSE j \in i..Len(symptoms) :
                        /\ ToLowerCase(symptoms[j]) = key
                        /\ \A k \in (j + 1)..Len(symptoms) : ToLowerCase(symptoms[k]) # key
         IN (IF first THEN <<symptoms[last]>> ELSE <<>>) \o Dedupe(symptoms, i + 1)

\* Array.isArray(symptoms) ? symptoms.join(", ") : "": the pieces after the
\* first start with a blank.
JoinSymptoms(list) ==
    [i \in 1..Len(list) |-> IF i > 1 THEN [list[i] EXCEPT !.pad = TRUE] ELSE list[i]]

\* the checks of submit before any request, in their order: Null when the
\* form passes, else Some(message of the Error thrown).
RECURSIVE RangeError(_, _)
RangeError(f, i) ==
    IF i > Len(NumericFields) THEN Null
    ELSE LET key == NumericFields[i]
             value == NumberOf(f[key]).n
         IN IF value < INPUT_LIMITS[key].min \/ value > INPUT_LIMITS[key].max
            THEN Some(RangeMessage[key])
            ELSE RangeError(f, i + 1)

\* the checks without the count of the symptoms.
ValidationErrorRangesOnly(f) ==
    IF \E i \in 1..Len(NumericFields) : ~NumberOf(f[NumericFields[i]]).finite
    THEN Some(FillMessage)
    ELSE RangeError(f, 1)

ValidationError(f) ==
    IF \E i \in 1..Len(NumericFields) : ~NumberOf(f[NumericFields[i]]).finite
    THEN Some(FillMessage)
    ELSE IF RangeError(f, 1) # Null THEN RangeError(f, 1)
    ELSE IF Len(SplitSymptoms(f.symptoms)) > MaxSymptoms THEN Some(SymptomsMessage)
    ELSE Null

\* const payload = {patient_id, age, vitals: {...}, symptoms: dedupedSymptoms}
\* (gender and rural are passed through and not modelled).
Payload(f) ==
    [patient_id |-> f.patient_id,
     age |-> NumberOf(f.age).n,
     vitals |-> [heart_rate |-> NumberOf(f.heart_rate).n,
                 systolic_bp |-> NumberOf(f.systolic_bp).n,
                 spo2 |-> NumberOf(f.spo2).n,
                 temperature |-> NumberOf(f.temperature).n],
     symptoms |-> Dedupe(SplitSymptoms(f.symptoms), 1)]

\* genPatientId(): a random id.
GeneratedIds == {"G1"}

\* The records a Re-triage button can hand to onRetriage: a record of the
\* queue response (QueuePage, the dashboard cards, HistoryPage's fromQueue)
\* with all its fields, or a record that has its patient_id only, the case
\* the `|| ""` and `?.` of the form's initial state and HistoryPage's
\* fallback provide for.
QueueRecord(id) ==
    IF id = "P1"
    THEN [patient_id |-> "P1", age |-> Typed(57),
          vitals |-> [heart_rate |-> Typed(82), systolic_bp |-> Typed(120),
                      spo2 |-> Typed(98), temperature |-> Typed(37)],
          symptoms |-> <<Piece("fever", TRUE, FALSE), Piece("cough", FALSE, FALSE)>>]
    ELSE [patient_id |-> id, age |-> Typed(0),
          vitals |-> [heart_rate |-> Typed(130), systolic_bp |-> Typed(120),
                      spo2 |-> Typed(98), temperature |-> Typed(37)],
          symptoms |-> <<>>]

FallbackRecord(id) ==
    [patient_id |-> id, age |-> Blank,
     vitals |-> [heart_rate |-> Blank, systolic_bp |-> Blank,
                 spo2 |-> Blank, temperature |-> Blank],
     symptoms |-> <<>>]

QueueRecords == { QueueRecord(id) : id \in PatientIds }
RetriageRecords == QueueRecords \cup { FallbackRecord(id) : id \in PatientIds }

\* useState initial form, overwritten on mount by the effect on
\* patientToRetriage when an intent is present.
InitialForm(intent, generated) ==
    IF intent = Null
    THEN [patient_id |-> generated, age |-> Blank, heart_rate |-> Blank,
          systolic_bp |-> Blank, spo2 |-> Blank, temperature |-> Blank,
          symptoms |-> <<>>]
    ELSE LET r == intent[1]
         IN [patient_id |-> r.patient_id,
             age |-> OrBlank(r.age),
             heart_rate |-> OrBlank(r.vitals.heart_rate),
             systolic_bp |-> OrBlank(r.vitals.systolic_bp),
             spo2 |-> OrBlank(r.vitals.spo2),
             temperature |-> OrBlank(r.vitals.temperature),
             symptoms |-> JoinSymptoms(r.symptoms)]

\* the form while no AddPatientForm instance exists.
NoForm == InitialForm(Null, "")

isRetriage == retriagePatient # Null

\* what the user can type into each input.
LongSymptoms == [i \in 1..(MaxSymptoms + 1) |-> Piece("fever", FALSE, i > 1)]

SymptomInputs ==
    { <<>>,
      <<Piece("fever", TRUE, FALSE), Piece("", FALSE, TRUE), Piece("fever", FALSE, TRUE)>>,
      LongSymptoms }

FieldInputs ==
    [patient_id  |-> {"P1"},
     age         |-> {Blank, Typed(57), Typed(121)},
     heart_rate  |-> {Blank, Typed(130), Typed(241)},
     systolic_bp |-> {Blank, Typed(120), Typed(49)},
     spo2        |-> {Blank, Typed(98), Typed(101)},
     temperature |-> {Blank, Typed(37), Typed(46)},
     symptoms    |-> SymptomInputs]

\* symptoms texts with repeated entries in several spellings.
RepeatedSymptoms ==
    { <<Piece("fever", TRUE, FALSE), Piece("cough", FALSE, TRUE), Piece("fever", FALSE, TRUE)>>,
      <<Piece("cough", FALSE, FALSE), Piece("", FALSE, TRUE), Piece("fever", FALSE, FALSE),
        Piece("cough", TRUE, TRUE), Piece("fever", FALSE, FALSE)>>,
      <<Piece("rash", FALSE, FALSE), Piece("cough", TRUE, FALSE), Piece("rash", FALSE, TRUE),
        Piece("fever", FALSE, TRUE), Piece("cough", FALSE, TRUE)>> }

\* the part of them typed in the runs that follow a submission through its
\* requests across page switches: a patient id and a heart rate.
WorkflowInputs ==
    [patient_id  |-> {"P1"},
     age         |-> {},
     heart_rate  |-> {Typed(130)},
     systolic_bp |-> {},
     spo2        |-> {},
     temperature |-> {},
     symptoms    |-> {}]

FormFields == DOMAIN FieldInputs

\* the age input left editable in a re-triage.
LockedFieldsIdOnly == IF isRetriage THEN {"patient_id"} ELSE {}

\* patient_id and age inputs: onChange={isRetriage ? undefined : set(...)}
LockedFields == IF isRetriage THEN {"patient_id", "age"} ELSE {}

\* ---- responses of the gateway
\* POST /triage
TriageResponses ==
    { [risk_score |-> 80, triage_category |-> "RED", confidence |-> "HIGH",
       predicted_next_move |-> "ICU_ADMISSION", priority |-> "P1"],
      [risk_score |-> 30, triage_category |-> "GREEN", confidence |-> "LOW",
       predicted_next_move |-> "", priority |-> ""] }

\* GET /patients/{id}/next-move-prediction ("" for a field left out)
PredictionResponses ==
    { [predicted_next_move |-> "OBSERVATION", priority |-> "P3"],
      [predicted_next_move |-> "", priority |-> ""] }

\* GET /recommendations/clinical
RecommendationResponses ==
    { [recommendations |-> <<"monitor">>], [recommendations |-> <<>>] }

\* messages of the Error a failed triage call throws ("" for none)
TriageFailures == {"API 422", ""}

\* ---- request: one HTTP exchange
\* A text is the sequence of its pieces, the empty text the empty sequence,
\* so that joining and the test for an empty string are computed.
Text(s) == IF s = "" THEN <<>> ELSE <<s>>

\* the detail of an error body: absent, a string, a list of entries (each
\* given by its msg, "" for an entry without one), or anything else.
NoDetail == [type |-> "missing", text |-> "", entries |-> <<>>]

StringDetail(s) == [type |-> "string", text |-> s, entries |-> <<>>]

ListDetail(msgs) == [type |-> "list", text |-> "", entries |-> msgs]

ObjectDetail == [type |-> "object", text |-> "", entries |-> <<>>]

Details ==
    { NoDetail, ObjectDetail, StringDetail("Invalid vitals"), StringDetail("") }
    \cup { ListDetail(msgs) :
             msgs \in { <<>>, <<"age: out of range">>,
                        <<"age: out of range", "spo2: field required">>,
                        <<"", "spo2: field required">>, <<"", "">> } }

\* {} : an object none of whose fields is present (0 and "" for the fields
\* the views read).
EmptyObject ==
    [risk_score |-> 0, triage_category |-> "", confidence |-> "",
     predicted_next_move |-> "", priority |-> "", detail |-> NoDetail]

\* a JSON object: the fields of a triage response and its detail.
JsonObject(fields, detail) ==
    [risk_score |-> fields.risk_score, triage_category |-> fields.triage_category,
     confidence |-> fields.confidence,
     predicted_next_move |-> fields.predicted_next_move,
     priority |-> fields.priority, detail |-> detail]

\* what response.json() gives: a rejection (parsed FALSE), the JSON null, or
\* an object.
Bodies ==
    { [parsed |-> FALSE, value |-> Null], [parsed |-> TRUE, value |-> Null] }
    \cup { [parsed |-> TRUE, value |-> Some(JsonObject(r, NoDetail))] : r \in TriageResponses }
    \cup { [parsed |-> TRUE, value |-> Some(JsonObject(EmptyObject, d))] : d \in Details }

HttpResponses == [status : {200, 422}, body : Bodies]

\* response.ok
Ok(response) == response.status \in 200..299

\* Array.prototype.join over texts
RECURSIVE Join(_, _)
Join(parts, sep) ==
    IF parts = <<>> THEN <<>>
    ELSE IF Len(parts) = 1 THEN Text(parts[1])
    ELSE Text(parts[1]) \o <<sep>> \o Join(Tail(parts), sep)

\* a detail list joined without dropping the entries that have no msg.
DetailTextUnfiltered(payload) ==
    IF payload = Null THEN <<>>
    ELSE LET d == payload[1].detail
         IN IF d.type = "string" THEN Text(d.text)
            ELSE IF d.type = "list" THEN Join(d.entries, ", ")
            ELSE <<>>

\* const detail = typeof payload?.detail === "string" ? ... : null, as a
\* text (null and "" are both falsy and both give the empty text).
DetailText(payload) ==
    IF payload = Null THEN <<>>
    ELSE LET d == payload[1].detail
         IN IF d.type = "string" THEN Text(d.text)
            ELSE IF d.type = "list"
                 THEN Join(SelectSeq(d.entries, LAMBDA m : m # ""), ", ")
            ELSE <<>>

\* request(path, options) once fetch has resolved with response: it throws
\* an Error with message, or returns value.
request(response) ==
    LET payload == IF response.body.parsed THEN response.body.value ELSE Null
        detail == DetailText(payload)
    IN IF ~Ok(response)
       THEN [threw |-> TRUE,
             message |-> IF detail # <<>> THEN detail
                         ELSE <<"API ", ToString(response.status)>>,
             value |-> EmptyObject]
       ELSE [threw |-> FALSE, message |-> <<>>,
             value |-> IF payload = Null THEN EmptyObject ELSE payload[1]]

\* one call of submit: whether its component instance is still mounted, the
\* locals payload.patient_id, predictionData and recommendationData, where
\* the call stands ("triage" and "secondary" while it awaits; "rejected",
\* "failed" and "done" once it has returned), how its two wrapped calls
\* settled, and the requests it has issued: the number of POST /triage, and
\* the patient_id of each prediction and recommendations request.  response
\* records, for the properties only, the HTTP response that settled its
\* triage call where the run draws one.
NewSub(f, valid) ==
    [live |-> TRUE,
     phase |-> IF valid THEN "triage" ELSE "rejected",
     patient_id |-> Payload(f).patient_id,
     prediction |-> "none", predictionData |-> Null,
     recs |-> "none", recommendationData |-> Null,
     triageCalls |-> IF valid THEN 1 ELSE 0,
     nextMoveCalls |-> <<>>,
     recommendationCalls |-> <<>>,
     response |-> Null]

\* setState of an instance that is no longer mounted changes nothing.
SetIfLive(sub, value, old) == IF sub.live THEN value ELSE old

Running(sub) == sub.phase \in {"triage", "secondary"}

\* a submit that leaves the previous result and prediction on the form.
SubmitKeepsResult ==
    /\ page = "addPatient"
    /\ ~loading
    /\ submitCount < MaxSubmits
    /\ submitCount' = submitCount + 1
    /\ LET err == ValidationError(form)
       IN /\ subs' = Append(SelectSeq(subs, Running), NewSub(form, err = Null))
          /\ loading' = (err = Null)
          /\ error' = err
    /\ UNCHANGED <<appVars, dashVars, queueVars, historyVars, netVars, pollHistory, alertHistory, form,
                   result, nextMove, recommendations>>

\* submit, up to its first await.  The button is disabled while loading.
Submit ==
    /\ page = "addPatient"
    /\ ~loading
    /\ submitCount < MaxSubmits
    /\ submitCount' = submitCount + 1
    /\ LET err == ValidationError(form)
       IN /\ subs' = Append(SelectSeq(subs, Running), NewSub(form, err = Null))
          /\ loading' = (err = Null)
          /\ result' = Null
          /\ error' = err
          /\ nextMove' = Null
          /\ recommendations' = <<>>
    /\ UNCHANGED <<appVars, dashVars, queueVars, historyVars, netVars, pollHistory, alertHistory, form>>

\* the recommendations call held back until the prediction has returned.
AfterTriageOkSequential(sub) ==
    [sub EXCEPT !.phase = "secondary",
                !.prediction = "pending",
                !.recs = "pending",
                !.nextMoveCalls = Append(@, sub.patient_id)]

\* await api.triage(payload) returns: setResult(data), then both secondary
\* calls are issued with payload.patient_id.
AfterTriageOk(sub) ==
    [sub EXCEPT !.phase = "secondary",
                !.prediction = "pending",
                !.recs = "pending",
                !.nextMoveCalls = Append(@, sub.patient_id),
                !.recommendationCalls = Append(@, sub.patient_id)]

TriageOk(i, data) ==
    /\ i \in 1..Len(subs)
    /\ subs[i].phase = "triage"
    /\ subs' = [subs EXCEPT ![i] = AfterTriageOk(subs[i])]
    /\ result' = SetIfLive(subs[i], Some(data), result)
    /\ UNCHANGED <<appVars, dashVars, queueVars, historyVars, netVars, pollHistory, alertHistory, submitCount,
                   form, loading, error, nextMove, recommendations>>

\* err?.message || "Failed to submit triage."
ErrorText(message) == IF message = "" THEN FallbackMessage ELSE message

\* a failed triage call after which the secondary calls are issued all the
\* same.
TriageFailThenSecondary(i, message) ==
    /\ i \in 1..Len(subs)
    /\ subs[i].phase = "triage"
    /\ subs' = [subs EXCEPT ![i] = [AfterTriageOk(subs[i]) EXCEPT !.phase = "failed"]]
    /\ error' = SetIfLive(subs[i], Some(ErrorText(message)), error)
    /\ loading' = SetIfLive(subs[i], FALSE, loading)
    /\ UNCHANGED <<appVars, dashVars, queueVars, historyVars, netVars, pollHistory, alertHistory, submitCount,
                   form, result, nextMove, recommendations>>

\* a failed triage call that is issued once more before submit gives up.
TriageFailRetry(i, message) ==
    /\ i \in 1..Len(subs)
    /\ subs[i].phase = "triage"
    /\ IF subs[i].triageCalls < 2
       THEN /\ subs' = [subs EXCEPT ![i].triageCalls = @ + 1]
            /\ UNCHANGED <<error, loading>>
       ELSE /\ subs' = [subs EXCEPT ![i].phase = "failed"]
            /\ error' = SetIfLive(subs[i], Some(ErrorText(message)), error)
            /\ loading' = SetIfLive(subs[i], FALSE, loading)
    /\ UNCHANGED <<appVars, dashVars, queueVars, historyVars, netVars, pollHistory, alertHistory, submitCount,
                   form, result, nextMove, recommendations>>

\* await api.triage(payload) throws: catch, setError, setLoading(false).
TriageFail(i, message) ==
    /\ i \in 1..Len(subs)
    /\ subs[i].phase = "triage"
    /\ subs' = [subs EXCEPT ![i].phase = "failed"]
    /\ error' = SetIfLive(subs[i], Some(ErrorText(message)), error)
    /\ loading' = SetIfLive(subs[i], FALSE, loading)
    /\ UNCHANGED <<appVars, dashVars, queueVars, historyVars, netVars, pollHistory, alertHistory, submitCount,
                   form, result, nextMove, recommendations>>

\* a submit whose setLoading(false) stands inside the try block: it is
\* skipped when the triage call throws.
TriageSettlesKeepsLoading(i, response) ==
    LET outcome == request(response)
        sub == [subs[i] EXCEPT !.response = Some(response)]
    IN /\ i \in 1..Len(subs)
       /\ subs[i].phase = "triage"
       /\ IF outcome.threw
          THEN /\ subs' = [subs EXCEPT ![i] = [sub EXCEPT !.phase = "failed"]]
               /\ error' = SetIfLive(sub,
                      Some(IF outcome.message # <<>> THEN outcome.message
                           ELSE Text(FallbackMessage)), error)
               /\ UNCHANGED <<result, loading>>
          ELSE /\ subs' = [subs EXCEPT ![i] = AfterTriageOk(sub)]
               /\ result' = SetIfLive(sub, Some(outcome.value), result)
               /\ UNCHANGED <<error, loading>>
       /\ UNCHANGED <<appVars, dashVars, queueVars, historyVars, netVars, pollHistory, alertHistory, submitCount,
                      form, nextMove, recommendations>>

\* await api.triage(payload) settles with what request makes of the HTTP
\* response: setResult(data) and the two secondary calls, or the catch with
\* err?.message || "Failed to submit triage.".
TriageSettles(i, response) ==
    LET outcome == request(response)
        sub == [subs[i] EXCEPT !.response = Some(response)]
    IN /\ i \in 1..Len(subs)
       /\ subs[i].phase = "triage"
       /\ IF outcome.threw
          THEN /\ subs' = [subs EXCEPT ![i] = [sub EXCEPT !.phase = "failed"]]
               /\ error' = SetIfLive(sub,
                      Some(IF outcome.message # <<>> THEN outcome.message
                           ELSE Text(FallbackMessage)), error)
               /\ loading' = SetIfLive(sub, FALSE, loading)
               /\ UNCHANGED result
          ELSE /\ subs' = [subs EXCEPT ![i] = AfterTriageOk(sub)]
               /\ result' = SetIfLive(sub, Some(outcome.value), result)
               /\ UNCHANGED <<error, loading>>
       /\ UNCHANGED <<appVars, dashVars, queueVars, historyVars, netVars, pollHistory, alertHistory, submitCount,
                      form, nextMove, recommendations>>

\* recommendationData?.recommendations || []
RecommendationList(recommendationData) ==
    IF recommendationData = Null THEN <<>> ELSE recommendationData[1].recommendations

\* the continuation of Promise.all once both wrapped calls have settled:
\* setNextMove, setRecommendations, setLoading(false).
Joined(sub) ==
    [sub EXCEPT !.phase = "done", !.predictionData = Null, !.recommendationData = Null]

\* each secondary result put on the form as soon as it arrives.
SecondarySettledEager(i, after) ==
    /\ nextMove' = SetIfLive(after, after.predictionData, nextMove)
    /\ recommendations' =
           SetIfLive(after, RecommendationList(after.recommendationData), recommendations)
    /\ IF after.prediction # "pending" /\ after.recs # "pending"
       THEN /\ subs' = [subs EXCEPT ![i] = Joined(after)]
            /\ loading' = SetIfLive(after, FALSE, loading)
       ELSE /\ subs' = [subs EXCEPT ![i] = after]
            /\ UNCHANGED loading

SecondarySettled(i, after) ==
    IF after.prediction # "pending" /\ after.recs # "pending"
    THEN /\ subs' = [subs EXCEPT ![i] = Joined(after)]
         /\ nextMove' = SetIfLive(after, after.predictionData, nextMove)
         /\ recommendations' =
                SetIfLive(after, RecommendationList(after.recommendationData), recommendations)
         /\ loading' = SetIfLive(after, FALSE, loading)
    ELSE /\ subs' = [subs EXCEPT ![i] = after]
         /\ UNCHANGED <<nextMove, recommendations, loading>>

\* api.nextMove(...) without its catch: a failure reaches the catch of
\* submit.
NextMoveSettlesUnwrapped(i, outcome) ==
    /\ i \in 1..Len(subs)
    /\ subs[i].phase = "secondary"
    /\ subs[i].prediction = "pending"
    /\ IF outcome = Null
       THEN /\ subs' = [subs EXCEPT ![i].phase = "failed", ![i].prediction = "failed"]
            /\ error' = SetIfLive(subs[i], Some(FallbackMessage), error)
            /\ loading' = SetIfLive(subs[i], FALSE, loading)
            /\ UNCHANGED <<nextMove, recommendations>>
       ELSE /\ SecondarySettled(i, [subs[i] EXCEPT !.prediction = "ok",
                                                   !.predictionData = outcome])
            /\ UNCHANGED error
    /\ UNCHANGED <<appVars, dashVars, queueVars, historyVars, netVars, pollHistory, alertHistory, submitCount, form, result>>

\* api.nextMove(...).catch(() => null) settles: outcome is Null after a
\* failure, Some(response) after a success.
NextMoveSettles(i, outcome) ==
    /\ i \in 1..Len(subs)
    /\ subs[i].phase = "secondary"
    /\ subs[i].prediction = "pending"
    /\ SecondarySettled(i, [subs[i] EXCEPT
            !.prediction = IF outcome = Null THEN "failed" ELSE "ok",
            !.predictionData = outcome])
    /\ UNCHANGED <<appVars, dashVars, queueVars, historyVars, netVars, pollHistory, alertHistory, submitCount, form, result, error>>

\* api.recommendations(...).catch(() => null) settles.
RecommendationsSettle(i, outcome) ==
    /\ i \in 1..Len(subs)
    /\ subs[i].phase = "secondary"
    /\ subs[i].recs = "pending"
    /\ SecondarySettled(i, [subs[i] EXCEPT
            !.recs = IF outcome = Null THEN "failed" ELSE "ok",
            !.recommendationData = outcome])
    /\ UNCHANGED <<appVars, dashVars, queueVars, historyVars, netVars, pollHistory, alertHistory, submitCount, form, result, error>>

\* set(k): setForm((f) => ({...f, [k]: e.target.value}))
SetField(k, v) ==
    /\ page = "addPatient"
    /\ k \in FormFields \ LockedFields
    /\ form[k] # v
    /\ form' = [form EXCEPT ![k] = v]
    /\ UNCHANGED <<appVars, dashVars, queueVars, historyVars, netVars, pollHistory, alertHistory,
                   loading, result, error, nextMove, recommendations, subVars>>

\* a || b for two strings ("" for a field left out).
OrElse(a, b) == IF a # "" THEN a ELSE b

\* nextMove?.field
FieldOf(response, field) == IF response = Null THEN "" ELSE response[1][field]

\* a result card that reads the primary result's field first.
resultCardPrimaryFirst ==
    IF result = Null THEN Null
    ELSE Some([risk_score |-> result[1].risk_score,
               triage_category |-> result[1].triage_category,
               confidence |-> result[1].confidence,
               predicted_move |->
                   OrElse(OrElse(result[1].predicted_next_move,
                                 FieldOf(nextMove, "predicted_next_move")), "N/A"),
               priority |->
                   OrElse(OrElse(result[1].priority, FieldOf(nextMove, "priority")), "N/A"),
               recommendations |-> recommendations])

\* {result && (...)}: the AI Triage Result card and the recommendations
\* under it.  Predicted Move is nextMove?.predicted_next_move ||
\* result.predicted_next_move || "N/A", Priority likewise.
resultCard ==
    IF result = Null THEN Null
    ELSE Some([risk_score |-> result[1].risk_score,
               triage_category |-> result[1].triage_category,
               confidence |-> result[1].confidence,
               predicted_move |->
                   OrElse(OrElse(FieldOf(nextMove, "predicted_next_move"),
                                 result[1].predicted_next_move), "N/A"),
               priority |->
                   OrElse(OrElse(FieldOf(nextMove, "priority"), result[1].priority), "N/A"),
               recommendations |-> recommendations])

\* a new AddPatientForm instance for the intent.
MountForm(intent) ==
    /\ \E g \in GeneratedIds : form' = InitialForm(intent, g)
    /\ loading' = FALSE
    /\ result' = Null
    /\ error' = Null
    /\ nextMove' = Null
    /\ recommendations' = <<>>

\* the instance is discarded.
UnmountForm ==
    /\ form' = NoForm
    /\ loading' = FALSE
    /\ result' = Null
    /\ error' = Null
    /\ nextMove' = Null
    /\ recommendations' = <<>>

\* the submit calls of the discarded instance go on without it.
Orphaned(s) == [i \in 1..Len(s) |-> [s[i] EXCEPT !.live = FALSE]]

\* ------------------------------------------------- views of a snapshot
\* Array.prototype.sort with the comparator (a, b) => b.risk_score -
\* a.risk_score: the sort is stable, so an element goes behind every element
\* already placed that the comparator does not order after it.
InsertByRisk(placed, p) ==
    LET Before(q) == q.risk_score >= p.risk_score
        After(q) == q.risk_score < p.risk_score
    IN SelectSeq(placed, Before) \o <<p>> \o SelectSeq(placed, After)

\* a sort that puts an element ahead of the elements of equal risk_score.
SortByRiskTiesReversed(patients) ==
    LET RECURSIVE Place(_, _)
        Place(i, placed) ==
            IF i > Len(patients) THEN placed
            ELSE LET p == patients[i]
                     Before(q) == q.risk_score > p.risk_score
                     After(q) == q.risk_score <= p.risk_score
                 IN Place(i + 1, SelectSeq(placed, Before) \o <<p>> \o SelectSeq(placed, After))
    IN Place(1, <<>>)

\* patients.slice().sort(...) and [...patients].sort(...): a sorted copy.
SortByRisk(patients) ==
    LET RECURSIVE Place(_, _)
        Place(i, placed) ==
            IF i > Len(patients) THEN placed
            ELSE Place(i + 1, InsertByRisk(placed, patients[i]))
    IN Place(1, <<>>)

\* QueuePage: const sorted = queueData?.patients?.slice().sort(...) || []
queuePatients == IF queuePageData = Null THEN <<>> ELSE queuePageData[1].patients

sorted == IF page = "queue" THEN SortByRisk(queuePatients) ELSE <<>>

\* TopPatientsCard: [...(patients || [])].sort(...).slice(0, 3)
top3 ==
    IF page = "dashboard"
    THEN SubSeq(SortByRisk(pts), 1, Min(TopLen, Len(pts)))
    ELSE <<>>

\* QueueSummaryCard: [...(patients || [])].sort(...).slice(0, 8)
summarySorted ==
    IF page = "dashboard"
    THEN SubSeq(SortByRisk(pts), 1, Min(SummaryLen, Len(pts)))
    ELSE <<>>

\* list.filter(p => p.triage === cat).length
CountOf(list, cat) ==
    LET Is(p) == p.triage = cat
    IN Len(SelectSeq(list, Is))

\* a tally that leaves YELLOW out.
CategoryOrderNoYellow == <<"RED", "ORANGE", "GREEN">>

\* ["RED", "ORANGE", "YELLOW", "GREEN"]
CategoryOrder == <<"RED", "ORANGE", "YELLOW", "GREEN">>

\* QueuePage: categoryStats
categoryStats ==
    [i \in 1..Len(CategoryOrder) |->
        [name |-> CategoryOrder[i], count |-> CountOf(sorted, CategoryOrder[i])]]

\* DashboardPage: red, orange, yellow, green
red == CountOf(pts, "RED")
orange == CountOf(pts, "ORANGE")
yellow == CountOf(pts, "YELLOW")
green == CountOf(pts, "GREEN")

\* README, "Risk score is mapped to triage color": 80+ RED, 60-79 ORANGE,
\* 40-59 YELLOW, <40 GREEN.
Banding(risk_score) ==
    IF risk_score >= 80 THEN "RED"
    ELSE IF risk_score >= 60 THEN "ORANGE"
    ELSE IF risk_score >= 40 THEN "YELLOW"
    ELSE "GREEN"

\* TriageBadge: const s = colors[category] || colors.GREEN, the dot likewise;
\* the label is {category} itself.
TriageBadge(category) ==
    [color |-> IF category \in TriageCategories THEN category ELSE "GREEN",
     label |-> category]

\* QueuePage risk bar: risk_score >= 80 ? red : risk_score >= 60 ? orange :
\* green (the hex colours are those of the badge).
RiskBar(risk_score) ==
    IF risk_score >= 80 THEN "RED" ELSE IF risk_score >= 60 THEN "ORANGE" ELSE "GREEN"

\* one row of the queue table: the badge and the risk bar of a patient.
QueueRow(p) ==
    [patient_id |-> p.patient_id, badge |-> TriageBadge(p.triage),
     bar |-> RiskBar(p.risk_score), risk_score |-> p.risk_score]

queueRows == [i \in 1..Len(sorted) |-> QueueRow(sorted[i])]

\* GET /queue with up to three patients whose triage follows the banding of
\* the score.
ViewPatientIds == <<"P1", "P2", "P3">>

BandedPairs == { <<80, "RED">>, <<60, "ORANGE">>, <<45, "YELLOW">>, <<30, "GREEN">> }

ViewSnapshots ==
    { [patients |-> [i \in 1..n |->
            [patient_id |-> ViewPatientIds[i], risk_score |-> f[i][1], triage |-> f[i][2]]]] :
        n \in 0..Len(ViewPatientIds), f \in [1..Len(ViewPatientIds) -> BandedPairs] }

\* GET /queue with records that may lack the triage field ("" for a field
\* left out), the case the fallback of TriageBadge provides for.
UnbadgedPairs == BandedPairs \cup { <<85, "">>, <<30, "">> }

FallbackSnapshots ==
    { [patients |-> [i \in 1..n |->
            [patient_id |-> ViewPatientIds[i], risk_score |-> f[i][1], triage |-> f[i][2]]]] :
        n \in 0..2, f \in [1..2 -> UnbadgedPairs] }

\* ------------------------------------------------------------ HistoryPage
\* GET /patients/{id}/history -> {records: [...]}: instants are counted in
\* hours; the records of one patient, newest first.
Timestamps == {20, 26, 49}
HistoryScores == {30, 60}

HistoryRecords ==
    { [timestamp |-> t, risk_score |-> r] : t \in Timestamps, r \in HistoryScores }

NewestFirst(records) ==
    \A i \in 1..(Len(records) - 1) : records[i].timestamp > records[i + 1].timestamp

HistoryLists ==
    { s \in UNION { [1..n -> HistoryRecords] : n \in 0..3 } : NewestFirst(s) }

HistoryResponses(patientId) ==
    { [patient_id |-> patientId, records |-> s] : s \in HistoryLists }

\* a new HistoryPage instance: its useState initial values, and the mount
\* effect api.queue().then(setQueueData).catch(() => {}).
MountHistory ==
    /\ historyQueueData' = Null
    /\ historyQueuePending' = TRUE
    /\ selectedPatient' = Null
    /\ patientHistory' = Null
    /\ historyLoading' = FALSE
    /\ nextDayPrediction' = Null
    /\ ndpLoading' = FALSE
    /\ historyCalls' = {}
    /\ historyLoadCount' = 0

\* the instance is discarded; what its pending calls bring back sets the
\* state of no instance, so the calls are followed no further.
UnmountHistory ==
    /\ historyQueueData' = Null
    /\ historyQueuePending' = FALSE
    /\ selectedPatient' = Null
    /\ patientHistory' = Null
    /\ historyLoading' = FALSE
    /\ nextDayPrediction' = Null
    /\ ndpLoading' = FALSE
    /\ historyCalls' = {}
    /\ historyLoadCount' = 0

\* const allPatients = queueData?.patients || []; the search box is left
\* empty, so filtered is allPatients.
allPatients == IF historyQueueData = Null THEN <<>> ELSE historyQueueData[1].patients

\* api.queue().then(setQueueData)
HistoryQueueOk(snap) ==
    /\ page = "history"
    /\ historyQueuePending
    /\ historyQueuePending' = FALSE
    /\ historyQueueData' = Some(snap)
    /\ UNCHANGED <<appVars, dashVars, queueVars, netVars, alertHistory, pollHistory,
                   selectedPatient, patientHistory, historyLoading, nextDayPrediction,
                   ndpLoading, historyCalls, historyLoadCount, formVars, subVars>>

\* api.queue()....catch(() => {})
HistoryQueueFail ==
    /\ page = "history"
    /\ historyQueuePending
    /\ historyQueuePending' = FALSE
    /\ UNCHANGED <<appVars, dashVars, queueVars, netVars, alertHistory, pollHistory,
                   historyQueueData, selectedPatient, patientHistory, historyLoading,
                   nextDayPrediction, ndpLoading, historyCalls, historyLoadCount,
                   formVars, subVars>>

\* loadPatientHistory(patientId), up to its first await: a click on a row of
\* the patient list.
LoadPatientHistory(patientId) ==
    /\ page = "history"
    /\ patientId \in Ids(allPatients)
    /\ historyLoadCount < MaxLoads
    /\ historyLoadCount' = historyLoadCount + 1
    /\ selectedPatient' = Some(patientId)
    /\ patientHistory' = Null
    /\ nextDayPrediction' = Null
    /\ historyLoading' = TRUE
    /\ ndpLoading' = TRUE
    /\ historyCalls' = historyCalls \cup
           {[id |-> historyLoadCount + 1, patientId |-> patientId, phase |-> "history"]}
    /\ UNCHANGED <<appVars, dashVars, queueVars, netVars, alertHistory, pollHistory,
                   historyQueueData, historyQueuePending, formVars, subVars>>

\* await api.history(patientId, 50) returns: setPatientHistory(hist),
\* setHistoryLoading(false), and the two wrapped calls are issued.
LoadHistoryOk(c, hist) ==
    /\ c \in historyCalls
    /\ c.phase = "history"
    /\ patientHistory' = Some(hist)
    /\ historyLoading' = FALSE
    /\ historyCalls' = (historyCalls \ {c}) \cup {[c EXCEPT !.phase = "prediction"]}
    /\ UNCHANGED <<appVars, dashVars, queueVars, netVars, alertHistory, pollHistory,
                   historyQueueData, historyQueuePending, selectedPatient,
                   nextDayPrediction, ndpLoading, historyLoadCount, formVars, subVars>>

\* await api.history(...) throws: catch { setPatientHistory(null) }.
LoadHistoryFail(c) ==
    /\ c \in historyCalls
    /\ c.phase = "history"
    /\ patientHistory' = Null
    /\ historyLoading' = FALSE
    /\ historyCalls' = (historyCalls \ {c}) \cup {[c EXCEPT !.phase = "prediction"]}
    /\ UNCHANGED <<appVars, dashVars, queueVars, netVars, alertHistory, pollHistory,
                   historyQueueData, historyQueuePending, selectedPatient,
                   nextDayPrediction, ndpLoading, historyLoadCount, formVars, subVars>>

\* the answer to a prediction or recommendations request for patientId, or
\* null after .catch(() => null).
AnswerFor(patientId, ok) == IF ok THEN Some([patient_id |-> patientId]) ELSE Null

\* Promise.all of the two wrapped calls returns once both have settled:
\* setNextDayPrediction({move, recs}), setNdpLoading(false).
LoadPredictionSettles(c, moveOk, recsOk) ==
    /\ c \in historyCalls
    /\ c.phase = "prediction"
    /\ nextDayPrediction' = Some([move |-> AnswerFor(c.patientId, moveOk),
                                  recs |-> AnswerFor(c.patientId, recsOk)])
    /\ ndpLoading' = FALSE
    /\ historyCalls' = historyCalls \ {c}
    /\ UNCHANGED <<appVars, dashVars, queueVars, netVars, alertHistory, pollHistory,
                   historyQueueData, historyQueuePending, selectedPatient, patientHistory,
                   historyLoading, historyLoadCount, formVars, subVars>>

\* const records = patientHistory?.records || []
records == IF patientHistory = Null THEN <<>> ELSE patientHistory[1].records

\* formatDate(iso): new Date(iso).toLocaleDateString("en-IN", {dateStyle:
\* "medium"}), the local calendar date with day, month and year, here the
\* number of the local day.
formatDate(iso) == (iso + TimeZoneOffset) \div HoursPerDay

\* a record put at the front of its day's list.
AddToDayFront(acc, rec) ==
    LET day == formatDate(rec.timestamp)
    IN IF \E i \in 1..Len(acc) : acc[i].day = day
       THEN [i \in 1..Len(acc) |->
                IF acc[i].day = day THEN [acc[i] EXCEPT !.records = <<rec>> \o @] ELSE acc[i]]
       ELSE Append(acc, [day |-> day, records |-> <<rec>>])

\* the callback of records.reduce: if (!acc[day]) acc[day] = [];
\* acc[day].push(rec).  acc is an object whose keys keep the order in which
\* they were added, which is the order Object.entries renders them in.
AddToDay(acc, rec) ==
    LET day == formatDate(rec.timestamp)
    IN IF \E i \in 1..Len(acc) : acc[i].day = day
       THEN [i \in 1..Len(acc) |->
                IF acc[i].day = day THEN [acc[i] EXCEPT !.records = Append(@, rec)] ELSE acc[i]]
       ELSE Append(acc, [day |-> day, records |-> <<rec>>])

RECURSIVE Reduce(_, _, _)
Reduce(list, i, acc) ==
    IF i > Len(list) THEN acc ELSE Reduce(list, i + 1, AddToDay(acc, list[i]))

recordsByDay == Reduce(records, 1, <<>>)

\* the trend taken between the newest and the oldest record.
getRiskTrendOldest ==
    IF Len(records) < 2 THEN Null
    ELSE LET latest == records[1].risk_score
             prev == records[Len(records)].risk_score
         IN IF latest > prev THEN Some([dir |-> "up", delta |-> latest - prev])
            ELSE IF latest < prev THEN Some([dir |-> "down", delta |-> prev - latest])
            ELSE Some([dir |-> "same", delta |-> 0])

\* getRiskTrend()
getRiskTrend ==
    IF Len(records) < 2 THEN Null
    ELSE LET latest == records[1].risk_score
             prev == records[2].risk_score
         IN IF latest > prev THEN Some([dir |-> "up", delta |-> latest - prev])
            ELSE IF latest < prev THEN Some([dir |-> "down", delta |-> prev - latest])
            ELSE Some([dir |-> "same", delta |-> 0])

trend == getRiskTrend

\* ---------------------------------------------------------------------- App
\* what a page switch does to the pages: the old page's instance is
\* discarded with its cleanups, the new page's is created and its mount
\* effect runs (the setInterval of AnalyticsPage is armed and cleared the
\* same way).
SwitchPages(from, to) ==
    /\ to \in PollingPages => queueCallCount < MaxQueueCalls
    /\ IF from = "dashboard" THEN UnmountDashboard
       ELSE IF to = "dashboard" THEN MountDashboard
       ELSE UNCHANGED dashVars
    /\ IF from = "queue" THEN UnmountQueue
       ELSE IF to = "queue" THEN MountQueue
       ELSE UNCHANGED <<queuePageData, queuePageLoading, queueInterval>>
    /\ analyticsInterval' = (to = "analytics")
    /\ IF to = "history" THEN MountHistory
       ELSE IF from = "history" THEN UnmountHistory
       ELSE UNCHANGED historyVars
    /\ queueCalls' = Orphan(queueCalls, from) \cup MountCalls(to)
    /\ queueCallCount' = queueCallCount + Cardinality(MountCalls(to))
    /\ pollHistory' = [s \in PollingPages |->
                          IF s \in {from, to} THEN FreshPoll ELSE pollHistory[s]]
    /\ IF from = "addPatient" THEN UnmountForm /\ subs' = Orphaned(subs)
       ELSE IF to = "addPatient" THEN MountForm(retriagePatient') /\ UNCHANGED subs
       ELSE UNCHANGED <<formVars, subVars>>

\* every page kept mounted and merely hidden.
NavigateKeepMounted(target) ==
    /\ target \in Pages
    /\ target # page
    /\ page' = target
    /\ alertHistory' = AfterLeave(alertHistory)
    /\ UNCHANGED <<retriagePatient, dashVars, queueVars, historyVars, netVars, pollHistory, formVars, subVars>>

\* a switch of screens that drops the intent.
NavigateDropsIntent(target) ==
    /\ target \in Pages
    /\ target # page
    /\ page' = target
    /\ retriagePatient' = Null
    /\ UNCHANGED submitCount
    /\ alertHistory' = AfterLeave(alertHistory)
    /\ SwitchPages(page, target)

\* Sidebar: setActive(item.id), and the "Re-triage ready" chip:
\* setPage("addPatient"); {pages[page]} renders the page chosen.
Navigate(target) ==
    /\ target \in Pages
    /\ target # page
    /\ page' = target
    /\ UNCHANGED <<retriagePatient, submitCount>>
    /\ alertHistory' = AfterLeave(alertHistory)
    /\ SwitchPages(page, target)

\* a Re-triage press that sets the intent and leaves the user where they are.
HandleRetriageStay(patient) ==
    /\ page \in {"dashboard", "queue", "history"}
    /\ page = "dashboard" => patient.patient_id \in Ids(pts)
    /\ retriagePatient' = Some(patient)
    /\ UNCHANGED <<page, dashVars, queueVars, historyVars, netVars, pollHistory, alertHistory,
                   formVars, subVars>>

\* handleRetriage(patient): setRetriagePatient(patient); setPage("addPatient").
\* The dashboard offers the button for the patients of its snapshot, the
\* queue and history screens for the patients of theirs.
HandleRetriage(patient) ==
    /\ page \in {"dashboard", "queue", "history"}
    /\ page = "dashboard" => patient.patient_id \in Ids(pts)
    /\ retriagePatient' = Some(patient)
    /\ page' = "addPatient"
    /\ alertHistory' = AfterLeave(alertHistory)
    /\ SwitchPages(page, "addPatient")
    /\ UNCHANGED submitCount

\* the intent cleared with the form instance kept as it is.
ClearRetriageKeepForm ==
    /\ page = "addPatient"
    /\ isRetriage
    /\ retriagePatient' = Null
    /\ UNCHANGED <<page, dashVars, queueVars, historyVars, netVars, pollHistory, alertHistory,
                   formVars, subVars>>

\* onClearRetriage: setRetriagePatient(null); the key of AddPatientForm goes
\* from the patient_id to "new", so the form is a new instance.
ClearRetriage ==
    /\ page = "addPatient"
    /\ isRetriage
    /\ retriagePatient' = Null
    /\ MountForm(Null)
    /\ subs' = Orphaned(subs)
    /\ UNCHANGED <<page, dashVars, queueVars, historyVars, netVars, pollHistory, alertHistory, submitCount>>

Init ==
    /\ page = "dashboard"
    /\ retriagePatient = Null
    /\ queueData = Null
    /\ dismissed = {}
    /\ expanded = TRUE
    /\ dashInterval = TRUE
    /\ queueCalls = {[id |-> 1, owner |-> "dashboard", live |-> TRUE]}
    /\ queueCallCount = 1
    /\ alertHistory = [id \in PatientIds |-> "never"]
    /\ queuePageData = Null
    /\ queuePageLoading = TRUE
    /\ queueInterval = FALSE
    /\ analyticsInterval = FALSE
    /\ pollHistory = [s \in PollingPages |-> FreshPoll]
    /\ historyQueueData = Null
    /\ historyQueuePending = FALSE
    /\ selectedPatient = Null
    /\ patientHistory = Null
    /\ historyLoading = FALSE
    /\ nextDayPrediction = Null
    /\ ndpLoading = FALSE
    /\ historyCalls = {}
    /\ historyLoadCount = 0
    /\ form = NoForm
    /\ loading = FALSE
    /\ result = Null
    /\ error = Null
    /\ nextMove = Null
    /\ recommendations = <<>>
    /\ subs = <<>>
    /\ submitCount = 0

\* the responses the gateway can give to a queue call: any of `all` while
\* the instance that issued it is mounted; no one reads the response to a
\* call of a discarded instance, so one stands for all.
ResponsesTo(c, all) == IF c.live THEN all ELSE {[patients |-> <<>>]}

\* ---- the actions, by component
AppActions ==
    \/ \E target \in Pages : Navigate(target)
    \/ \E patient \in RetriageRecords : HandleRetriage(patient)
    \/ ClearRetriage

QueueActions ==
    \/ QueuePollTick
    \/ QueueRefresh
    \/ \E c \in queueCalls : \E snap \in ResponsesTo(c, Snapshots) : QueueFetchOk(c, snap)
    \/ \E c \in queueCalls : QueueFetchFail(c)

HistoryActions ==
    \/ \E snap \in Snapshots : HistoryQueueOk(snap)
    \/ HistoryQueueFail
    \/ \E patientId \in PatientIds : LoadPatientHistory(patientId)
    \/ \E c \in historyCalls : \E hist \in HistoryResponses(c.patientId) : LoadHistoryOk(c, hist)
    \/ \E c \in historyCalls : LoadHistoryFail(c)
    \/ \E c \in historyCalls : \E moveOk, recsOk \in BOOLEAN :
          LoadPredictionSettles(c, moveOk, recsOk)

DashboardActions ==
    \/ DashPollTick
    \/ \E c \in queueCalls : \E snap \in ResponsesTo(c, Snapshots) : DashFetchOk(c, snap)
    \/ \E c \in queueCalls : DashFetchFail(c)
    \/ \E id \in PatientIds : Dismiss(id)
    \/ ToggleExpanded

FormActions ==
    \/ \E k \in FormFields : \E v \in FieldInputs[k] : SetField(k, v)
    \/ Submit
    \/ \E i \in 1..Len(subs), data \in TriageResponses : TriageOk(i, data)
    \/ \E i \in 1..Len(subs), message \in TriageFailures : TriageFail(i, message)
    \/ \E i \in 1..Len(subs) :
          \E outcome \in {Null} \cup {Some(r) : r \in PredictionResponses} :
              NextMoveSettles(i, outcome)
    \/ \E i \in 1..Len(subs) :
          \E outcome \in {Null} \cup {Some(r) : r \in RecommendationResponses} :
              RecommendationsSettle(i, outcome)

\* The whole console.
Next == AppActions \/ DashboardActions \/ QueueActions \/ HistoryActions \/ FormActions

Spec == Init /\ [][Next]_vars

\* The dashboard with its poller and alert panel: the runs of the console in
\* which the user leaves the dashboard by the sidebar only, the submission
\* form is opened but not used and the queue screen is not opened.
DashPages == Pages \ {"queue"}

NextDash ==
    \/ \E target \in DashPages : Navigate(target)
    \/ DashPollTick
    \/ \E c \in queueCalls : \E snap \in ResponsesTo(c, Snapshots) : DashFetchOk(c, snap)
    \/ \E c \in queueCalls : DashFetchFail(c)
    \/ \E id \in PatientIds : Dismiss(id)
    \/ ToggleExpanded

SpecDash == Init /\ [][NextDash]_vars

\* The submission form and the re-triage intent: the runs of the console in
\* which the user moves between the submission screen and the history screen
\* (the dashboard, once left, is not opened again and its first queue call
\* stays pending), types WorkflowInputs.
WorkflowPages == {"addPatient", "history"}

NextForm ==
    \/ \E target \in WorkflowPages : Navigate(target)
    \/ \E patient \in RetriageRecords : HandleRetriage(patient)
    \/ ClearRetriage
    \/ \E k \in FormFields : \E v \in WorkflowInputs[k] : SetField(k, v)
    \/ Submit
    \/ \E i \in 1..Len(subs), data \in TriageResponses : TriageOk(i, data)
    \/ \E i \in 1..Len(subs), message \in TriageFailures : TriageFail(i, message)
    \/ \E i \in 1..Len(subs) :
          \E outcome \in {Null} \cup {Some(r) : r \in PredictionResponses} :
              NextMoveSettles(i, outcome)
    \/ \E i \in 1..Len(subs) :
          \E outcome \in {Null} \cup {Some(r) : r \in RecommendationResponses} :
              RecommendationsSettle(i, outcome)

SpecForm == Init /\ [][NextForm]_vars

\* The two queue pollers: the runs of the console in which the user moves
\* between the dashboard, the queue screen and the analytics screen while
\* the gateway answers each queue call with one of PollSnapshots or fails
\* it.
PollPages == {"dashboard", "queue", "analytics"}

PollSnapshots ==
    { [patients |-> <<>>],
      [patients |-> <<[patient_id |-> "P1", risk_score |-> 80, triage |-> "RED"]>>],
      [patients |-> <<[patient_id |-> "P2", risk_score |-> 30, triage |-> "GREEN"],
                      [patient_id |-> "P1", risk_score |-> 60, triage |-> "ORANGE"]>>] }

NextPoll ==
    \/ \E target \in PollPages : Navigate(target)
    \/ DashPollTick
    \/ \E c \in queueCalls : \E snap \in ResponsesTo(c, PollSnapshots) : DashFetchOk(c, snap)
    \/ \E c \in queueCalls : DashFetchFail(c)
    \/ QueuePollTick
    \/ QueueRefresh
    \/ \E c \in queueCalls : \E snap \in ResponsesTo(c, PollSnapshots) : QueueFetchOk(c, snap)
    \/ \E c \in queueCalls : QueueFetchFail(c)

SpecPoll == Init /\ [][NextPoll]_vars

\* The re-triage intent across the screens: the runs of the console in which
\* the user moves between all the screens, the gateway answers the queue
\* calls of the mounted screen with one of PollSnapshots, the user presses
\* Re-triage on the dashboard, the queue or the history screen, clears the
\* intent and submits the form as it was filled in.
NextIntent ==
    \/ \E target \in Pages : Navigate(target)
    \/ \E patient \in RetriageRecords : HandleRetriage(patient)
    \/ ClearRetriage
    \/ \E c \in queueCalls : \E snap \in ResponsesTo(c, PollSnapshots) : DashFetchOk(c, snap)
    \/ \E c \in queueCalls : \E snap \in ResponsesTo(c, PollSnapshots) : QueueFetchOk(c, snap)
    \/ Submit

SpecIntent == Init /\ [][NextIntent]_vars

\* The history screen: the runs of the console in which the user moves
\* between the history screen and the analytics screen, the gateway answers
\* the screen's queue call with one of PollSnapshots or fails it, the user
\* clicks patients of the list and the gateway answers each history request
\* with one of HistoryResponses or fails it.
HistoryViewPages == {"history", "analytics"}

NextHistory ==
    \/ \E target \in HistoryViewPages : Navigate(target)
    \/ \E snap \in PollSnapshots : HistoryQueueOk(snap)
    \/ HistoryQueueFail
    \/ \E patientId \in PatientIds : LoadPatientHistory(patientId)
    \/ \E c \in historyCalls : \E hist \in HistoryResponses(c.patientId) : LoadHistoryOk(c, hist)
    \/ \E c \in historyCalls : LoadHistoryFail(c)
    \/ \E c \in historyCalls : \E moveOk, recsOk \in BOOLEAN :
          LoadPredictionSettles(c, moveOk, recsOk)

SpecHistory == Init /\ [][NextHistory]_vars

\* The views of a snapshot: the runs of the console in which the user moves
\* between the dashboard and the queue screen and the gateway answers the
\* queue calls with one of ViewSnapshots.
ViewPages == {"dashboard", "queue"}

NextViews ==
    \/ \E target \in ViewPages : Navigate(target)
    \/ \E c \in queueCalls : \E snap \in ResponsesTo(c, ViewSnapshots) : DashFetchOk(c, snap)
    \/ \E c \in queueCalls : \E snap \in ResponsesTo(c, ViewSnapshots) : QueueFetchOk(c, snap)

SpecViews == Init /\ [][NextViews]_vars

\* The same with answers whose records may lack the triage field.
NextFallback ==
    \/ \E target \in ViewPages : Navigate(target)
    \/ \E c \in queueCalls : \E snap \in ResponsesTo(c, FallbackSnapshots) : DashFetchOk(c, snap)
    \/ \E c \in queueCalls : \E snap \in ResponsesTo(c, FallbackSnapshots) : QueueFetchOk(c, snap)

SpecFallback == Init /\ [][NextFallback]_vars

\* The checks of submit over the contents a form can have: the submission
\* screen is open, for a new patient or for a re-triage, and the user has
\* typed any of FieldInputs into the inputs that are not locked; from there
\* the user submits.
FormContents(intent) ==
    LET start == InitialForm(intent, "G1")
        Choices(k) ==
            IF intent # Null /\ k \in {"patient_id", "age"} THEN {start[k]}
            ELSE {start[k]} \cup FieldInputs[k]
    IN { [patient_id |-> id, age |-> a, heart_rate |-> h, systolic_bp |-> b,
          spo2 |-> o, temperature |-> t, symptoms |-> y] :
            id \in Choices("patient_id"), a \in Choices("age"),
            h \in Choices("heart_rate"), b \in Choices("systolic_bp"),
            o \in Choices("spo2"), t \in Choices("temperature"),
            y \in Choices("symptoms") }

InitValidate ==
    /\ page = "addPatient"
    /\ retriagePatient \in {Null} \cup { Some(r) : r \in RetriageRecords }
    /\ form \in FormContents(retriagePatient)
    /\ queueData = Null
    /\ dismissed = {}
    /\ expanded = TRUE
    /\ dashInterval = FALSE
    /\ queueCalls = {[id |-> 1, owner |-> "dashboard", live |-> FALSE]}
    /\ queueCallCount = 1
    /\ alertHistory = [id \in PatientIds |-> "never"]
    /\ queuePageData = Null
    /\ queuePageLoading = TRUE
    /\ queueInterval = FALSE
    /\ analyticsInterval = FALSE
    /\ pollHistory = [s \in PollingPages |-> FreshPoll]
    /\ historyQueueData = Null
    /\ historyQueuePending = FALSE
    /\ selectedPatient = Null
    /\ patientHistory = Null
    /\ historyLoading = FALSE
    /\ nextDayPrediction = Null
    /\ ndpLoading = FALSE
    /\ historyCalls = {}
    /\ historyLoadCount = 0
    /\ loading = FALSE
    /\ result = Null
    /\ error = Null
    /\ nextMove = Null
    /\ recommendations = <<>>
    /\ subs = <<>>
    /\ submitCount = 0

NextValidate ==
    \/ \E k \in FormFields : \E v \in FieldInputs[k] : SetField(k, v)
    \/ Submit
    \/ \E i \in 1..Len(subs), data \in TriageResponses : TriageOk(i, data)
    \/ \E i \in 1..Len(subs), message \in TriageFailures : TriageFail(i, message)
    \/ \E i \in 1..Len(subs) :
          \E outcome \in {Null} \cup {Some(r) : r \in PredictionResponses} :
              NextMoveSettles(i, outcome)
    \/ \E i \in 1..Len(subs) :
          \E outcome \in {Null} \cup {Some(r) : r \in RecommendationResponses} :
              RecommendationsSettle(i, outcome)

SpecValidate == InitValidate /\ [][NextValidate]_vars

\* The HTTP layer under the submission: the runs in which the user, on the
\* form opened for the re-triage of patient P1, submits, and the gateway
\* answers each triage call with one of HttpResponses.
InitRequest ==
    /\ InitValidate
    /\ retriagePatient = Some(QueueRecord("P1"))
    /\ form = InitialForm(retriagePatient, "G1")

NextRequest ==
    \/ Submit
    \/ \E i \in 1..Len(subs), response \in HttpResponses : TriageSettles(i, response)
    \/ \E i \in 1..Len(subs) :
          \E outcome \in {Null} \cup {Some(r) : r \in PredictionResponses} :
              NextMoveSettles(i, outcome)
    \/ \E i \in 1..Len(subs) :
          \E outcome \in {Null} \cup {Some(r) : r \in RecommendationResponses} :
              RecommendationsSettle(i, outcome)

SpecRequest == InitRequest /\ [][NextRequest]_vars

\* The symptoms of the payload: the runs in which the user, on the form
\* opened for the re-triage of patient P1, retypes the symptoms and submits.
NextSymptoms ==
    \/ \E v \in SymptomInputs \cup RepeatedSymptoms : SetField("symptoms", v)
    \/ Submit
    \/ \E i \in 1..Len(subs), data \in TriageResponses : TriageOk(i, data)
    \/ \E i \in 1..Len(subs), message \in TriageFailures : TriageFail(i, message)
    \/ \E i \in 1..Len(subs) :
          \E outcome \in {Null} \cup {Some(r) : r \in PredictionResponses} :
              NextMoveSettles(i, outcome)
    \/ \E i \in 1..Len(subs) :
          \E outcome \in {Null} \cup {Some(r) : r \in RecommendationResponses} :
              RecommendationsSettle(i, outcome)

SpecSymptoms == InitRequest /\ [][NextSymptoms]_vars

\* The submit to its end: the runs in which the user, on the form opened
\* for the re-triage of patient P1, submits, cancels the re-triage (which
\* leaves a blank form) and submits again, the gateway answers each triage
\* call with one of HttpResponses, and every call that has been issued
\* settles in the end.
NextFinish ==
    \/ ClearRetriage
    \/ Submit
    \/ \E i \in 1..Len(subs), response \in HttpResponses : TriageSettles(i, response)
    \/ \E i \in 1..Len(subs) :
          \E outcome \in {Null} \cup {Some(r) : r \in PredictionResponses} :
              NextMoveSettles(i, outcome)
    \/ \E i \in 1..Len(subs) :
          \E outcome \in {Null} \cup {Some(r) : r \in RecommendationResponses} :
              RecommendationsSettle(i, outcome)

EveryCallSettles ==
    \A i \in 1..MaxSubmits :
        /\ WF_vars(\E response \in HttpResponses : TriageSettles(i, response))
        /\ WF_vars(\E outcome \in {Null} \cup {Some(r) : r \in PredictionResponses} :
                      NextMoveSettles(i, outcome))
        /\ WF_vars(\E outcome \in {Null} \cup {Some(r) : r \in RecommendationResponses} :
                      RecommendationsSettle(i, outcome))

SpecFinish == InitRequest /\ [][NextFinish]_vars /\ EveryCallSettles

\* ================================================================ properties
\* the submit call whose instance is mounted, if any: the last one started.
Latest == subs[Len(subs)]

\* C1: a submission whose triage call has failed has issued no prediction
\* call and no recommendations call; on the form that issued it an error
\* message stands and no result is shown.
C1_TriageFailureStops ==
    \A i \in 1..Len(subs) :
        subs[i].phase = "failed" =>
            /\ subs[i].nextMoveCalls = <<>>
            /\ subs[i].recommendationCalls = <<>>
            /\ subs[i].live => (error # Null /\ error[1] # "" /\ result = Null)

\* the triage call of the open form has failed with the gateway's message.
C1_Witness ==
    /\ page = "addPatient"
    /\ subs # <<>>
    /\ Latest.live
    /\ Latest.phase = "failed"
    /\ Latest.triageCalls = 1
    /\ error = Some("API 422")

\* C2: while a submission of the open form is past its successful triage
\* call and waits for the prediction and recommendations calls, no step
\* sets the error or changes the result shown, whichever of the two calls
\* fail; once both have settled, a failed prediction leaves the prediction
\* absent and failed recommendations leave the list empty.
C2_SecondaryFailureDegrades ==
    [][\A i \in 1..Len(subs) :
          (subs[i].live /\ subs[i].phase = "secondary") =>
              /\ result # Null
              /\ result' = result
              /\ error = Null
              /\ error' = Null
              /\ i \in 1..Len(subs')
              /\ subs'[i].phase \in {"secondary", "done"}
              /\ subs'[i].phase = "done" =>
                    /\ subs'[i].prediction = "failed" => nextMove' = Null
                    /\ subs'[i].recs = "failed" => recommendations' = <<>>]_vars

\* both secondary calls of a submission have failed and its result is on
\* the screen without an error.
C2_Witness ==
    /\ subs # <<>>
    /\ Latest.live
    /\ Latest.phase = "done"
    /\ Latest.prediction = "failed"
    /\ Latest.recs = "failed"
    /\ result # Null
    /\ error = Null
    /\ nextMove = Null
    /\ recommendations = <<>>
    /\ ~loading

\* C3: a submission has issued no prediction or recommendations call before
\* its triage call has returned success; from then on it has issued each of
\* the two exactly once, both at the same step, both with the patient_id of
\* its payload.
C3_SecondaryAfterTriage ==
    \A i \in 1..Len(subs) :
        /\ subs[i].phase \in {"rejected", "triage", "failed"} =>
              /\ subs[i].nextMoveCalls = <<>>
              /\ subs[i].recommendationCalls = <<>>
        /\ subs[i].phase \in {"secondary", "done"} =>
              /\ subs[i].triageCalls = 1
              /\ subs[i].nextMoveCalls = <<subs[i].patient_id>>
              /\ subs[i].recommendationCalls = <<subs[i].patient_id>>

\* both calls of a submission are in flight at once, for the patient of the
\* re-triage.
C3_Witness ==
    \E i \in 1..Len(subs) :
        /\ subs[i].phase = "secondary"
        /\ subs[i].prediction = "pending"
        /\ subs[i].recs = "pending"
        /\ subs[i].patient_id = "P2"
        /\ subs[i].nextMoveCalls = <<"P2">>
        /\ subs[i].recommendationCalls = <<"P2">>

\* the claim's own reading of a form that fails input validation.
OutsideLimits(f) ==
    \E k \in DOMAIN INPUT_LIMITS :
        /\ f[k].kind = "num"
        /\ (f[k].n < INPUT_LIMITS[k].min \/ f[k].n > INPUT_LIMITS[k].max)

TooManySymptoms(f) ==
    Cardinality({ i \in 1..Len(f.symptoms) : f.symptoms[i].word # "" }) > 12

\* C4: a submit of a form with a numeric field outside its INPUT_LIMITS
\* range or with more than 12 symptoms sets an error and issues no triage,
\* prediction or recommendations call; the calls of the submissions already
\* under way stay as they are.
C4_InvalidInputNoRequest ==
    [][(submitCount' = submitCount + 1 /\ (OutsideLimits(form) \/ TooManySymptoms(form))) =>
          /\ error' # Null
          /\ result' = Null
          /\ ~loading'
          /\ subs'[Len(subs')].phase = "rejected"
          /\ subs'[Len(subs')].triageCalls = 0
          /\ subs'[Len(subs')].nextMoveCalls = <<>>
          /\ subs'[Len(subs')].recommendationCalls = <<>>
          /\ \A i \in 1..(Len(subs') - 1) : \E j \in 1..Len(subs) : subs'[i] = subs[j]]_vars

\* thirteen symptoms with every vital in range have been submitted and
\* turned down.
C4_Witness ==
    /\ subs # <<>>
    /\ Latest.phase = "rejected"
    /\ Latest.triageCalls = 0
    /\ form.symptoms = LongSymptoms
    /\ ~OutsideLimits(form)
    /\ error = Some(SymptomsMessage)

\* C5: a submit has issued at most one triage request, whether the request
\* is pending, has succeeded or has failed: none when the form was turned
\* down, one otherwise.
C5_OneTriageRequestPerSubmit ==
    /\ Len(subs) <= submitCount
    /\ \A i \in 1..Len(subs) :
          /\ subs[i].triageCalls <= 1
          /\ subs[i].phase = "rejected" <=> subs[i].triageCalls = 0

\* one submission has failed and another has gone through, each after one
\* triage request.
C5_Witness ==
    /\ \E i \in 1..Len(subs) : subs[i].phase = "failed" /\ subs[i].triageCalls = 1
    /\ \E i \in 1..Len(subs) : subs[i].phase = "done" /\ subs[i].triageCalls = 1

OnDashboard == page = "dashboard"

\* the claim's own reading of the critical subset of a patient list.
HighRiskIds(patients) ==
    { patients[i].patient_id : i \in
        { j \in 1..Len(patients) :
            \/ patients[j].triage \in {"RED", "ORANGE"}
            \/ patients[j].risk_score >= 60 } }

\* C6: re-arm on exit.  Whenever a snapshot puts a patient into the critical
\* subset who was outside it in the snapshot before, while the dashboard
\* stays open, the patient is an active alert afterwards -- also when the
\* patient had been dismissed during an earlier critical episode.
C6_RearmOnReentry ==
    [][\A id \in PatientIds :
          (/\ OnDashboard /\ OnDashboard'
           /\ id \notin HighRiskIds(pts)
           /\ id \in HighRiskIds(pts'))
          => id \in Ids(critical')]_vars

\* C7: don't re-nag.  While the dashboard stays open, a patient dismissed
\* during the present visit whom every snapshot applied since the dismissal
\* has in the critical subset is still dismissed and is not among the
\* active or the rendered alerts, however many polls have been applied.
C7_NoRenag ==
    OnDashboard =>
        \A id \in PatientIds :
            alertHistory[id] \in {"now", "kept"} =>
                /\ id \in dismissed
                /\ id \notin Ids(critical)
                /\ id \notin Ids(rendered)

\* a dismissed patient has stayed critical through a later poll and is not
\* an alert, while another alert is being shown.
C7_Witness ==
    /\ OnDashboard
    /\ \E id \in PatientIds :
          /\ alertHistory[id] = "kept"
          /\ id \in HighRiskIds(pts)
          /\ id \notin Ids(critical)
    /\ Len(rendered) > 0

\* C8: the active alerts are exactly the patients of the snapshot with
\* category RED or ORANGE or risk_score >= 60, minus the dismissed ids, each
\* once; every rendered alert is one of them.
C8_ActiveAlertsExact ==
    OnDashboard =>
        /\ Ids(critical) = HighRiskIds(pts) \ dismissed
        /\ Len(critical) = Cardinality(Ids(critical))
        /\ Ids(rendered) \subseteq HighRiskIds(pts) \ dismissed

\* an alert raised by category alone is shown while another critical
\* patient is dismissed.
C8_Witness ==
    /\ OnDashboard
    /\ \E i \in 1..Len(rendered) :
          rendered[i].risk_score < 60 /\ rendered[i].triage = "RED"
    /\ \E id \in dismissed : id \in HighRiskIds(pts)

TierRank(risk) == IF risk >= 80 THEN 1 ELSE IF risk >= 60 THEN 2 ELSE 3

PositionIn(patients, id) ==
    CHOOSE i \in 1..Len(patients) : patients[i].patient_id = id

C10_DismissalsEndWithView ==
    OnDashboard =>
        /\ dismissed \subseteq { id \in PatientIds : alertHistory[id] \in ThisVisit }
        /\ \A id \in PatientIds :
              (alertHistory[id] = "earlier" /\ id \in HighRiskIds(pts))
              => id \in Ids(critical)

\* back on the dashboard, a patient dismissed in the earlier visit is
\* rendered again.
C10_Witness ==
    /\ OnDashboard
    /\ \E id \in PatientIds :
          /\ alertHistory[id] = "earlier"
          /\ id \in Ids(rendered)

\* ---- the pollers
\* the queue calls of the mounted instance of a screen that are in flight.
LiveCalls(s) == { c \in queueCalls : c.owner = s /\ c.live }

\* the snapshot a screen exposes, its timer, and all its poller exposes.
SnapshotOf(s) == IF s = "dashboard" THEN queueData ELSE queuePageData
TimerOf(s) == IF s = "dashboard" THEN dashInterval ELSE queueInterval
NextTimerOf(s) == IF s = "dashboard" THEN dashInterval' ELSE queueInterval'
ExposedBy(s) == IF s = "dashboard" THEN <<queueData>> ELSE <<queuePageData, queuePageLoading>>

\* in this step the call c settles (its continuation runs).
Settles(c) == c \in queueCalls /\ \A d \in queueCalls' : d.id # c.id

\* in this step a call of the mounted instance of its screen fails / succeeds.
FailsLive(c) == Settles(c) /\ c.live /\ pollHistory'[c.owner].last = "failed"
SucceedsLive(c) == Settles(c) /\ c.live /\ pollHistory'[c.owner].last = "ok"

\* C11: single-flight polling.  In no reachable state are two queue fetches
\* of the same poller (the mounted instance of a screen) in flight at once.
C11_SingleFlight ==
    \A s \in PollingPages : Cardinality(LiveCalls(s)) <= 1

\* C12: a failed queue fetch leaves the snapshot its screen exposes as it
\* was, and the screen goes on as before: the same page is displayed with
\* the same state, nothing is thrown into it.
C12_FailedFetchKeepsSnapshot ==
    [][\A c \in queueCalls :
          FailsLive(c) =>
              /\ queueData' = queueData
              /\ queuePageData' = queuePageData
              /\ page' = page
              /\ <<dismissed, expanded>>' = <<dismissed, expanded>>]_vars

\* a fetch of the dashboard has failed while a snapshot is shown.
C12_Witness ==
    /\ page = "dashboard"
    /\ pollHistory["dashboard"].last = "failed"
    /\ queueData # Null
    /\ queueData = pollHistory["dashboard"].response

\* C13: a failed queue fetch raises a flag.  When a fetch fails on a screen
\* whose latest fetch had succeeded, what the poller exposes afterwards
\* differs from what it exposed after that success.
C13_FailureRaisesFlag ==
    [][\A c \in queueCalls :
          (FailsLive(c) /\ pollHistory[c.owner].last = "ok")
          => ExposedBy(c.owner)' # ExposedBy(c.owner)]_vars

\* C14: a queue fetch that settles after its screen was left changes the
\* snapshot of no screen, the reopened screen included.
C14_LateResponseDropped ==
    [][\A c \in queueCalls :
          (Settles(c) /\ ~c.live) =>
              /\ queueData' = queueData
              /\ queuePageData' = queuePageData
              /\ queuePageLoading' = queuePageLoading]_vars

\* the dashboard was left and opened again, a response for its earlier
\* instance has arrived, and the new instance still has no snapshot.
C14_Witness ==
    /\ page = "dashboard"
    /\ pollHistory["dashboard"].stale
    /\ pollHistory["dashboard"].last = "none"
    /\ queueData = Null
    /\ LiveCalls("dashboard") # {}

\* C15: a timer exists only for the screen displayed, and a screen that was
\* left issues no queue fetch: every fetch in flight that belongs to a
\* mounted instance belongs to the screen displayed.
C15_TimersOnlyForDisplayed ==
    /\ dashInterval => page = "dashboard"
    /\ queueInterval => page = "queue"
    /\ analyticsInterval => page = "analytics"
    /\ \A c \in queueCalls : c.live => c.owner = page

\* the queue screen polls after the dashboard was left with a fetch in
\* flight.
C15_Witness ==
    /\ page = "queue"
    /\ queueInterval
    /\ ~dashInterval
    /\ \E c \in queueCalls : c.owner = "dashboard" /\ ~c.live
    /\ LiveCalls("queue") # {}

\* C16: opening a polling screen issues one queue fetch at once and arms
\* its timer; no step issues more than one fetch; while the page stays, a
\* fetch is issued only for the displayed polling screen; leaving a polling
\* screen disarms its timer.
C16_FetchOnOpenThenPerTick ==
    [][/\ queueCallCount' <= queueCallCount + 1
       /\ (page' # page /\ page' \in PollingPages) =>
             /\ queueCallCount' = queueCallCount + 1
             /\ \E c \in queueCalls' : c.id = queueCallCount' /\ c.owner = page' /\ c.live
             /\ NextTimerOf(page')
       /\ (page' # page /\ page \in PollingPages) => ~NextTimerOf(page)
       /\ (page' = page /\ queueCallCount' > queueCallCount) =>
             /\ page \in PollingPages
             /\ \E c \in queueCalls' : c.id = queueCallCount' /\ c.owner = page /\ c.live]_vars

\* the dashboard has issued its first fetch and two more on ticks.
C16_Witness ==
    /\ page = "dashboard"
    /\ dashInterval
    /\ queueCallCount = 3
    /\ Cardinality(LiveCalls("dashboard")) + (IF pollHistory["dashboard"].last = "none" THEN 0 ELSE 1) >= 2
    /\ \A c \in queueCalls : c.owner = "dashboard"

\* C17: a failed fetch leaves the timer of its screen armed, and a fetch
\* that succeeds, after a failure as well, makes its response the snapshot
\* of its screen.
C17_PollingSurvivesFailure ==
    [][\A c \in queueCalls :
          /\ FailsLive(c) => NextTimerOf(c.owner)
          /\ SucceedsLive(c) =>
                /\ SnapshotOf(c.owner)' # Null
                /\ SnapshotOf(c.owner)' = pollHistory'[c.owner].response]_vars

\* on the dashboard a fetch has failed and a later one has succeeded and is
\* shown.
C17_Witness ==
    /\ page = "dashboard"
    /\ pollHistory["dashboard"].recovered
    /\ pollHistory["dashboard"].last = "ok"
    /\ queueData # Null
    /\ dashInterval

\* C18: the snapshot a screen exposes is absent as long as no fetch of its
\* mounted instance has succeeded, and otherwise is the whole response of
\* the fetch that succeeded latest.
C18_SnapshotIsOneResponse ==
    \A s \in PollingPages : SnapshotOf(s) = pollHistory[s].response

\* the queue screen shows a response of two patients after an earlier
\* response.
C18_Witness ==
    /\ page = "queue"
    /\ queuePageData # Null
    /\ Len(queuePageData[1].patients) = 2
    /\ queueCallCount = 3
    /\ queueCalls = {}
    /\ ~queuePageLoading

\* ---- the re-triage form
\* C19: a submit in re-triage mode that reaches the gateway sends a payload
\* whose patient_id and age are the patient_id and age of the intent
\* record, whatever the other inputs hold and whichever fields the record
\* has.
C19_RetriagePayloadKeepsIdentity ==
    [][(/\ submitCount' = submitCount + 1
        /\ isRetriage
        /\ subs'[Len(subs')].triageCalls = 1)
       => /\ Payload(form).patient_id = retriagePatient[1].patient_id
          /\ Typed(Payload(form).age) = retriagePatient[1].age]_vars

\* C20: while the intent stays and the submission screen stays open, no
\* step changes the form's patient_id or age; a step that changes the form
\* changes one of heart_rate, systolic_bp, spo2, temperature and symptoms.
C20_LockedIdentityFields ==
    [][(/\ isRetriage
        /\ retriagePatient' = retriagePatient
        /\ page = "addPatient" /\ page' = "addPatient")
       => /\ form'.patient_id = form.patient_id
          /\ form'.age = form.age
          /\ form' # form =>
                Cardinality({ k \in {"heart_rate", "systolic_bp", "spo2",
                                     "temperature", "symptoms"} : form'[k] # form[k] }) = 1]_vars

\* in a re-triage of P1 a form with thirteen symptoms was turned down, the
\* symptoms and the heart rate have been edited since, and the locked
\* fields are those of the record.
C20_Witness ==
    /\ page = "addPatient"
    /\ retriagePatient = Some(QueueRecord("P1"))
    /\ subs # <<>>
    /\ Latest.phase = "rejected"
    /\ error = Some(SymptomsMessage)
    /\ form.symptoms = <<>>
    /\ form.heart_rate = Typed(130)
    /\ form.patient_id = "P1"
    /\ form.age = Typed(57)

\* ---- the re-triage intent
\* C21: a submission made in re-triage mode that has come back with a
\* successful triage response and has returned leaves no intent behind: no
\* state shows a completed submission of the mounted form next to an intent.
C21_IntentClearedOnSuccess ==
    \A i \in 1..Len(subs) :
        (subs[i].live /\ subs[i].phase = "done" /\ result # Null) => retriagePatient = Null

\* C22: the intent is absent or one record; every step that sets it or
\* replaces it by another record is a Re-triage press on the dashboard, the
\* queue or the history screen, the record is one that screen offers, and the
\* step ends on the submission screen with the form of that record.
C22_OneIntentSetByRetriage ==
    [][/\ Len(retriagePatient') <= 1
       /\ (retriagePatient' # retriagePatient /\ retriagePatient' # Null)
            => /\ page \in {"dashboard", "queue", "history"}
               /\ retriagePatient'[1] \in RetriageRecords
               /\ page = "dashboard" => retriagePatient'[1].patient_id \in Ids(pts)
               /\ page' = "addPatient"
               /\ \E g \in GeneratedIds : form' = InitialForm(retriagePatient', g)]_vars

\* the intent was P1's record when a valid form was submitted, the user
\* pressed Re-triage for P2 on the dashboard, the queue or the history
\* screen, and the intent is P2's record on the submission screen.
C22_Witness ==
    /\ page = "addPatient"
    /\ retriagePatient = Some(QueueRecord("P2"))
    /\ form = InitialForm(retriagePatient, "G1")
    /\ \E i \in 1..Len(subs) :
          /\ ~subs[i].live
          /\ subs[i].patient_id = "P1"
          /\ subs[i].triageCalls = 1

\* C23: the step that clears the intent ends with no intent and a form in
\* the new-patient defaults: a generated patient_id, empty age, vitals and
\* symptoms, no locked field, no result, prediction, recommendations or
\* error, not loading; and what the calls of the cleared re-triage bring back
\* later reaches no form: a form none of whose submit calls is its own shows
\* no result and no error.
C23_ClearGivesNewPatientForm ==
    [][/\ (retriagePatient # Null /\ retriagePatient' = Null)
            => /\ form'.patient_id \in GeneratedIds
               /\ form' = InitialForm(Null, form'.patient_id)
               /\ form'.age = Blank
               /\ form'.symptoms = <<>>
               /\ LockedFields' = {}
               /\ result' = Null
               /\ error' = Null
               /\ nextMove' = Null
               /\ recommendations' = <<>>
               /\ ~loading'
       /\ (\A i \in 1..Len(subs') : ~subs'[i].live)
            => (result' = Null /\ error' = Null /\ ~loading')]_vars

\* the triage call of a re-triage of P1 has succeeded, the intent was
\* cleared, and the form is a new patient's.
C23_Witness ==
    /\ page = "addPatient"
    /\ retriagePatient = Null
    /\ form = InitialForm(Null, "G1")
    /\ result = Null
    /\ \E i \in 1..Len(subs) :
          /\ ~subs[i].live
          /\ subs[i].patient_id = "P1"
          /\ subs[i].phase \in {"secondary", "done"}

\* C24: a step that changes the screen leaves the intent as it is, unless it
\* is a Re-triage press (which sets one); and a step that opens the
\* submission screen with an intent ends with the form of that record, its
\* patient_id and age locked.
C24_NavigationKeepsIntent ==
    [][page' # page
       => /\ \/ retriagePatient' = retriagePatient
             \/ /\ page \in {"dashboard", "queue", "history"}
                /\ page' = "addPatient"
                /\ retriagePatient' # Null
          /\ (page' = "addPatient" /\ retriagePatient' # Null)
               => /\ \E g \in GeneratedIds : form' = InitialForm(retriagePatient', g)
                  /\ LockedFields' = {"patient_id", "age"}]_vars

\* the intent is P1's record, a form submitted under it has been left
\* behind by a switch of screens, the queue screen and again the dashboard
\* have been opened in this run, and the user is back on the submission
\* screen, in re-triage mode for P1.
C24_Witness ==
    /\ page = "addPatient"
    /\ retriagePatient = Some(QueueRecord("P1"))
    /\ form = InitialForm(retriagePatient, "G1")
    /\ LockedFields = {"patient_id", "age"}
    /\ queueCallCount = MaxQueueCalls
    /\ \E c \in queueCalls : c.owner = "queue"
    /\ \E c \in queueCalls : c.owner = "dashboard" /\ c.id > 1
    /\ \E i \in 1..Len(subs) :
          /\ ~subs[i].live
          /\ subs[i].patient_id = "P1"
          /\ subs[i].triageCalls = 1

\* ---- the history views
DaysOf(list) == { formatDate(list[i].timestamp) : i \in 1..Len(list) }

RECURSIVE TotalRecords(_, _)
TotalRecords(groups, i) ==
    IF i > Len(groups) THEN 0 ELSE Len(groups[i].records) + TotalRecords(groups, i + 1)

\* C27: the day groups of the records shown are one per distinct local
\* calendar day of the records' timestamps, stand in newest-first day order,
\* each hold the records of their day in the order of the record list, and
\* their sizes add up to the number of records.
C27_GroupByDay ==
    LET groups == recordsByDay
    IN /\ { groups[i].day : i \in 1..Len(groups) } = DaysOf(records)
       /\ Len(groups) = Cardinality(DaysOf(records))
       /\ \A i, j \in 1..Len(groups) : i < j => groups[i].day > groups[j].day
       /\ \A i \in 1..Len(groups) :
             LET OfDay(rec) == formatDate(rec.timestamp) = groups[i].day
             IN /\ groups[i].records = SelectSeq(records, OfDay)
                /\ NewestFirst(groups[i].records)
       /\ TotalRecords(groups, 1) = Len(records)

\* three records of a patient are shown, in two groups: the newest record
\* alone in its day, the two older ones, hours apart across a UTC midnight,
\* together in theirs.
C27_Witness ==
    /\ page = "history"
    /\ selectedPatient # Null
    /\ Len(records) = 3
    /\ Len(recordsByDay) = 2
    /\ Len(recordsByDay[1].records) = 1
    /\ Len(recordsByDay[2].records) = 2
    /\ (records[2].timestamp \div HoursPerDay) # (records[3].timestamp \div HoursPerDay)

\* C28: the trend is absent when fewer than two records are shown; otherwise
\* its direction is up, down or same as the newest record's risk_score is
\* greater than, less than or equal to the second-newest record's, and its
\* delta is the absolute difference of the two scores.
C28_RiskTrend ==
    IF Len(records) < 2
    THEN trend = Null
    ELSE LET newest == records[1].risk_score
             second == records[2].risk_score
         IN /\ trend # Null
            /\ trend[1].dir = (IF newest > second THEN "up"
                               ELSE IF newest < second THEN "down" ELSE "same")
            /\ trend[1].delta = (IF newest >= second THEN newest - second
                                 ELSE second - newest)

\* three records are shown whose newest and oldest scores are equal and
\* whose second-newest is lower: the trend is up by the difference.
C28_Witness ==
    /\ page = "history"
    /\ Len(records) = 3
    /\ records[1].risk_score = 60
    /\ records[2].risk_score = 30
    /\ records[3].risk_score = 60
    /\ trend = Some([dir |-> "up", delta |-> 30])

\* ---- the views of a snapshot
SameElements(a, b) ==
    /\ Len(a) = Len(b)
    /\ { a[i] : i \in 1..Len(a) } = { b[i] : i \in 1..Len(b) }

Descending(list) ==
    \A i, j \in 1..Len(list) : i < j => list[i].risk_score >= list[j].risk_score

\* patients of equal risk_score stand in `list` in the order they have in
\* `patients`.
TiesKeepOrder(list, patients) ==
    \A i, j \in 1..Len(list) :
        (i < j /\ list[i].risk_score = list[j].risk_score)
            => PositionIn(patients, list[i].patient_id) < PositionIn(patients, list[j].patient_id)

\* C25: the list the queue screen shows is a permutation of its snapshot's
\* patients in descending risk_score order in which patients of equal
\* risk_score keep their snapshot order, and the snapshot is still the
\* response as it arrived; the dashboard's top three and summary lists are
\* the first entries of the same ordering of its snapshot.
C25_SortedByRisk ==
    /\ page = "queue" =>
          /\ SameElements(sorted, queuePatients)
          /\ Descending(sorted)
          /\ TiesKeepOrder(sorted, queuePatients)
          /\ queuePageData = pollHistory["queue"].response
    /\ page = "dashboard" =>
          /\ Len(top3) = Min(TopLen, Len(pts))
          /\ Descending(top3)
          /\ TiesKeepOrder(top3, pts)
          /\ \A k \in 1..Len(pts) :
                (\A i \in 1..Len(top3) : top3[i] # pts[k])
                    => \A i \in 1..Len(top3) :
                          \/ top3[i].risk_score > pts[k].risk_score
                          \/ /\ top3[i].risk_score = pts[k].risk_score
                             /\ PositionIn(pts, top3[i].patient_id) < k
          /\ summarySorted = SubSeq(SortByRisk(pts), 1, Min(SummaryLen, Len(pts)))
          /\ queueData = pollHistory["dashboard"].response

\* the queue screen shows P2 (80) ahead of P1 and P3 (both 60), which stand
\* in the order of the snapshot P1, P2, P3.
C25_Witness ==
    /\ page = "queue"
    /\ Len(queuePatients) = 3
    /\ queuePatients[1].risk_score = 60
    /\ queuePatients[2].risk_score = 80
    /\ queuePatients[3].risk_score = 60
    /\ sorted = <<queuePatients[2], queuePatients[1], queuePatients[3]>>

RECURSIVE SumCounts(_, _)
SumCounts(stats, i) ==
    IF i > Len(stats) THEN 0 ELSE stats[i].count + SumCounts(stats, i + 1)

C30_FallbackBadgeFollowsBanding ==
    page = "queue" =>
        \A i \in 1..Len(queueRows) :
            queueRows[i].badge.label = ""
                => queueRows[i].badge.color = Banding(queueRows[i].risk_score)

\* ---- the presented result
\* what submit call i of the mounted form has got back from its prediction
\* call and from its recommendations call, once settled.
Settled(i) == subs[i].live /\ subs[i].phase = "secondary" /\ subs'[i].phase = "done"

ResponseOf(i) == subs[i].response[1]

\* the msg values of a detail list, those present, in their order.
MsgValues(detail) == SelectSeq(detail.entries, LAMBDA m : m # "")

\* msgs written out as one text with ", " between neighbours.
Interleaved(msgs) ==
    [k \in 1..(2 * Len(msgs) - 1) |-> IF k % 2 = 1 THEN msgs[(k + 1) \div 2] ELSE ", "]

\* the message the claim gives for a non-2xx response.
ClaimedMessage(response) ==
    LET body == response.body
        generic == <<"API ", ToString(response.status)>>
    IN IF ~body.parsed \/ body.value = Null THEN generic
       ELSE LET detail == body.value[1].detail
            IN IF detail.type = "string" /\ detail.text # "" THEN <<detail.text>>
               ELSE IF detail.type = "list" /\ MsgValues(detail) # <<>>
                    THEN Interleaved(MsgValues(detail))
               ELSE generic

SameIgnoringCase(a, b) == ToLowerCase(Trim(a)) = ToLowerCase(Trim(b))

\* the index of the first piece of text equal to entry ignoring case.
FirstOccurrence(entry, text) ==
    CHOOSE i \in 1..Len(text) :
        /\ SameIgnoringCase(text[i], entry)
        /\ \A j \in 1..(i - 1) : ~SameIgnoringCase(text[j], entry)

\* sent is an ordered set of the non-blank pieces of text under
\* case-insensitive comparison.
OrderedSetOf(sent, text) ==
    /\ \A i, j \in 1..Len(sent) : i # j => ~SameIgnoringCase(sent[i], sent[j])
    /\ \A i \in 1..Len(text) :
          text[i].word # "" =>
              Cardinality({k \in 1..Len(sent) : SameIgnoringCase(sent[k], text[i])}) = 1
    /\ \A k \in 1..Len(sent) :
          /\ sent[k].word # "" /\ ~sent[k].pad
          /\ \E i \in 1..Len(text) : Trim(text[i]) = sent[k]
    /\ \A k, l \in 1..Len(sent) :
          k < l => FirstOccurrence(sent[k], text) < FirstOccurrence(sent[l], text)

\* C32: in every step in which a submit issues its triage request, the
\* symptoms of the payload are an ordered set of the entered symptoms under
\* case-insensitive comparison: no two entries equal ignoring case, every
\* entered symptom present exactly once, each entry one of the entered
\* spellings trimmed, and the entries in the order of their first occurrence.
C32_SymptomsOrderedSet ==
    [][(submitCount' = submitCount + 1 /\ Latest'.phase = "triage")
         => OrderedSetOf(Payload(form).symptoms, form.symptoms)]_vars

\* a triage request issued from "cough, , fever, Cough , fever": the payload
\* holds two symptoms, cough first.
C32_Witness ==
    /\ Len(subs) > 0
    /\ Latest.phase = "triage"
    /\ Latest.live
    /\ Len(form.symptoms) = 5
    /\ form.symptoms[1].word = "cough"
    /\ Len(Payload(form).symptoms) = 2
    /\ Payload(form).symptoms[1].word = "cough"


\* C33: the snapshot of the queue screen never regresses to an older
\* request.  In every step in which a fetch of the mounted queue screen
\* succeeds, that fetch was issued after the fetch whose response the screen
\* shows, or it leaves the snapshot shown as it is.
C33_NoRegression ==
    [][\A c \in queueCalls :
          (c.owner = "queue" /\ SucceedsLive(c))
              => (c.id > pollHistory["queue"].from \/ queuePageData' = queuePageData)]_vars


\* C34: on the history screen, once no load is outstanding, the history
\* records shown and the next-day prediction shown are those of the selected
\* patient.
C34_HistoryOfSelected ==
    (page = "history" /\ selectedPatient # Null /\ historyCalls = {}) =>
        /\ patientHistory # Null => patientHistory[1].patient_id = selectedPatient[1]
        /\ nextDayPrediction # Null =>
              /\ nextDayPrediction[1].move # Null =>
                     nextDayPrediction[1].move[1].patient_id = selectedPatient[1]
              /\ nextDayPrediction[1].recs # Null =>
                     nextDayPrediction[1].recs[1].patient_id = selectedPatient[1]


\* C35: at most one submission is in flight.  In no reachable state are the
\* triage requests of two submits pending at once.
C35_OneSubmissionInFlight ==
    Cardinality({i \in 1..Len(subs) : subs[i].phase = "triage"}) <= 1


\* C36: in every step in which a submit starts from a form whose age,
\* heart_rate, systolic_bp, spo2 or temperature is empty, the submit is
\* rejected: an error stands on the form and no triage request is issued.
C36_EmptyFieldRejected ==
    [][(submitCount' = submitCount + 1
          /\ \E i \in 1..Len(NumericFields) : form[NumericFields[i]] = Blank)
         => (/\ Latest'.phase = "rejected"
             /\ Latest'.triageCalls = 0
             /\ error' # Null)]_vars


\* C37: on the submission form an error and a result are never both set,
\* and every step in which a submit starts leaves the form without result,
\* prediction and recommendations, and without error when it issues its
\* triage request.
C37_ErrorExcludesResult ==
    /\ [](error # Null => result = Null)
    /\ [][submitCount' = submitCount + 1
            => (/\ result' = Null
                /\ nextMove' = Null
                /\ recommendations' = <<>>
                /\ Latest'.triageCalls > 0 => error' = Null)]_vars

\* the second submit of a run has failed at its triage call: its error
\* stands on the form without result or prediction.
C37_Witness ==
    /\ submitCount = 2
    /\ Len(subs) = 1
    /\ Latest.live
    /\ Latest.phase = "failed"
    /\ error # Null
    /\ result = Null
    /\ nextMove = Null


\* C38: every submit finishes.  When every issued call settles, a form that
\* is loading stops loading, and again and again no submit is running; and
\* whenever the submit of the mounted form has returned (after a validation
\* failure, a failed triage call, or a successful one with both secondary
\* calls settled), loading is false and an error or a result is set.
C38_SubmitFinishes ==
    /\ loading ~> ~loading
    /\ []<>(\A i \in 1..Len(subs) : ~Running(subs[i]))
    /\ []((Len(subs) > 0 /\ Latest.live /\ ~Running(Latest))
            => (~loading /\ (error # Null \/ result # Null)))

\* the submit of a discarded form has run to its end after a successful
\* triage call, and the submit of the blank form that replaced it was
\* rejected by the validation: nothing is loading and an error stands.
C38_Witness ==
    /\ Len(subs) = 2
    /\ ~subs[1].live
    /\ subs[1].phase = "done"
    /\ Latest.live
    /\ Latest.phase = "rejected"
    /\ ~loading
    /\ error # Null


\* C39: the prediction and the recommendations are put on the form together
\* and only once both secondary calls have settled.  While a secondary call
\* of the mounted form's submit is pending, the form shows the primary
\* result, no prediction and no recommendations, and is loading; in the
\* step in which the second of the two settles, both are applied and
\* loading ends.
C39_SecondaryAppliedTogether ==
    /\ []((Len(subs) > 0 /\ Latest.live /\ Latest.phase = "secondary")
            => (/\ result # Null
                /\ nextMove = Null
                /\ recommendations = <<>>
                /\ loading))
    /\ [][(Len(subs) > 0 /\ Latest.live /\ Latest.phase = "secondary"
             /\ Len(subs') = Len(subs) /\ Latest'.phase = "done")
            => (/\ nextMove' = (IF Latest.prediction = "pending"
                                THEN nextMove' ELSE Latest.predictionData)
                /\ recommendations' = (IF Latest.recs = "pending" THEN recommendations'
                                       ELSE RecommendationList(Latest.recommendationData))
                /\ ~loading')]_vars

\* the prediction call has returned a prediction and the recommendations
\* call is still pending: the form shows the primary result only.
C39_Witness ==
    /\ Len(subs) > 0
    /\ Latest.live
    /\ Latest.phase = "secondary"
    /\ Latest.prediction = "ok"
    /\ Latest.predictionData # Null
    /\ Latest.recs = "pending"
    /\ result # Null
    /\ nextMove = Null
    /\ loading
====
